---- MODULE Spec2Model ----
(***************************************************************************)
(* Model of the GSAP animation debugger overlays of urbancooling/web.      *)
(*                                                                         *)
(* The repository holds several revisions of the same overlay.  The        *)
(* variable ver selects the revision that is loaded on the page:           *)
(*   "4.3.2"  src/unnamed/part_001:852-1212  (Proxy + track + wrapEvents)  *)
(*   "3.10.1" src/unnamed/part_000:881-1190  (Proxy + track + wrapEvents)  *)
(*   "1.0.8"  src/gsap-debugger-webflow.js   (method hooks + monitorTween) *)
(*   "1.0.16" src/unnamed/part_001:36-847    (render hook + monitorTween)  *)
(*   "1.0.23" src/unnamed/part_000:32-876    (method hooks, throttled)     *)
(*   "1.0.24" src/webflow-debug.js           (method hooks)                *)
(*                                                                         *)
(* The animation runtime (GSAP) is the environment: it creates objects,    *)
(* keeps one callback slot per object and event (eventCallback(evt) reads  *)
(* the slot, eventCallback(evt, fn) overwrites it: wrapEvents reads the    *)
(* previous callback and chains it by hand, part_001:1015-1026), and fires *)
(* the slots at times of its own choosing.                                 *)
(***************************************************************************)
EXTENDS Integers, Sequences, FiniteSets, TLC

\* ---------------------------------------------------------------- bounds
MaxInst == 1        \* runtime objects (handles) created per page load
MaxTime == 6000     \* the clock stops advancing here (ms)
TickMs  == 1500     \* granularity of the clock (ms)
MaxLog  == 1        \* log lines in the queue and the panel together
MaxLoads == 3       \* page loads of one visit (SpecNav)
MaxRecords == 3     \* mutation records waiting for the observer (SpecDom)
MaxDomLog == 2      \* log lines in the queue and the panel together (SpecDom)
MaxMsgs == 252      \* messages enqueued on one page (SpecLog)
MaxViews == 2       \* wfPageView events per behaviour (SpecBanner)
MaxCreated == 4     \* gsap calls of the banner script (SpecBanner)
MaxClock == 750     \* ms the clock of the debounce scenario runs (SpecDebounce)
ClockStep == 125    \* ms the clock advances in one step (SpecDebounce)
MaxTimers == 4      \* timers a debounced function sets (SpecDebounce)
MaxFlight == 3      \* tweens of the banner in flight at once (SpecScroll)
MaxPolls == 12      \* checks for window.gsap that find none (SpecDetect)
StackLimit == 120   \* frames the call stack holds (SpecRender)
MaxStale == 2       \* runtime objects created per page load (SpecStale)

\* ------------------------------------------------------ program constants
FADE_OUT_MS == 3000
COMPLETED_ANIMATION_DISPLAY_DURATION == 3000
UPDATE_THROTTLE_INTERVAL == 50
LOG_BATCH == 50
LOG_KEEP == 200

Versions       == {"4.3.2", "3.10.1", "1.0.8", "1.0.16", "1.0.23", "1.0.24"}
ProxyVersions  == {"4.3.2", "3.10.1"}           \* tracked Map + wrapEvents
StatusVersions == {"1.0.16", "1.0.23", "1.0.24"} \* entries carry completedAt

Null == 0 - 1       \* JavaScript null / undefined for a timestamp

\* ------------------------------------------------------------- elements
\* What getElementIdentifier reads of its argument: el itself (null or not,
\* the window, the body or another object), el.id, el.className and
\* el.tagName.  classType is typeof el.className: "string", "object" (the
\* SVGAnimatedString of an SVG element) or "undefined"; className is the
\* string, one character an item.  An absent id or tagName is "".
NullEl  == [null |-> TRUE,  is |-> "element", id |-> "", classType |-> "string",
            className |-> <<>>, tagName |-> ""]
NavWrapEl  == [null |-> FALSE, is |-> "element", id |-> "nav-wrap", classType |-> "string",
               className |-> <<>>, tagName |-> "DIV"]
PlainEl == [null |-> FALSE, is |-> "element", id |-> "", classType |-> "string",
            className |-> <<>>, tagName |-> ""]
WindowEl == [null |-> FALSE, is |-> "window", id |-> "", classType |-> "undefined",
             className |-> <<>>, tagName |-> ""]

ClassNames == {<<>>, <<" ">>, <<"a">>, <<" ", "a">>, <<"a", " ", "b">>}

\* The arguments the identifier resolver is examined on.
Elements ==
    {NullEl, WindowEl}
    \cup [null : {FALSE}, is : {"body"}, id : {""}, classType : {"string"},
          className : ClassNames, tagName : {"BODY"}]
    \cup [null : {FALSE}, is : {"element"}, id : {"", "nav-wrap"}, classType : {"string"},
          className : ClassNames, tagName : {"", "DIV"}]
    \cup [null : {FALSE}, is : {"element"}, id : {"", "nav-wrap"},
          classType : {"object", "undefined"}, className : {<<>>}, tagName : {"", "svg"}]

toLowerCase(s) == IF s = "DIV" THEN "div" ELSE IF s = "BODY" THEN "body" ELSE s

\* String.prototype.split(" "): the pieces between the spaces, empty ones
\* included.
RECURSIVE splitFrom(_, _, _, _)
splitFrom(s, k, cur, acc) ==
    IF k > Len(s) THEN Append(acc, cur)
    ELSE IF s[k] = " " THEN splitFrom(s, k + 1, <<>>, Append(acc, cur))
    ELSE splitFrom(s, k + 1, Append(cur, s[k]), acc)

split(s) == splitFrom(s, 1, <<>>, <<>>)

NonEmpty(c) == c # <<>>

\* el.className.split(" ").filter((c) => c)
classNames(el) == SelectSeq(split(el.className), NonEmpty)

\* A truthy el.className: a non-empty string or any object.
hasClassName(el) ==
    \/ el.classType = "object"
    \/ el.classType = "string" /\ el.className # <<>>

\* part_001:879-889 (v4.3.2) and part_000:909-917 (v3.10.1, which has no
\* window and no body case).
getElementIdentifierProxy(v, el) ==
    IF el.null THEN <<"lit", "N/A">>
    ELSE IF v = "4.3.2" /\ el.is = "window" THEN <<"lit", "Window">>
    ELSE IF v = "4.3.2" /\ el.is = "body" THEN <<"lit", "Body">>
    ELSE IF el.id # "" THEN <<"#", el.id>>
    ELSE IF el.classType = "string" /\ hasClassName(el) /\ classNames(el) # <<>>
         THEN <<".", classNames(el)[1]>>
    ELSE IF el.tagName # "" THEN <<"<>", toLowerCase(el.tagName)>>
    ELSE <<"lit", "Unknown">>

\* webflow-debug.js:214-227 (v1.0.24), part_000:213-226 (v1.0.23),
\* part_001:394-407 (v1.0.16), gsap-debugger-webflow.js:346-359 (v1.0.8):
\* el.className.split is called on whatever truthy value className is, and
\* an SVGAnimatedString has no split.
getElementIdentifierV1(el) ==
    IF el.null THEN [threw |-> FALSE, value |-> <<"lit", "N/A">>]
    ELSE IF el.is = "window" THEN [threw |-> FALSE, value |-> <<"lit", "Window">>]
    ELSE IF el.is = "body" THEN [threw |-> FALSE, value |-> <<"lit", "Body">>]
    ELSE IF el.id # "" THEN [threw |-> FALSE, value |-> <<"#", el.id>>]
    ELSE IF hasClassName(el) /\ el.classType # "string"
         THEN [threw |-> TRUE, value |-> <<"lit", "TypeError">>]
    ELSE IF hasClassName(el) /\ classNames(el) # <<>>
         THEN [threw |-> FALSE,
               value |-> <<".", classNames(el)[1],
                           IF Len(classNames(el)) > 1 THEN " (+)" ELSE "">>]
    ELSE IF el.tagName # ""
         THEN [threw |-> FALSE, value |-> <<"<>", toLowerCase(el.tagName)>>]
    ELSE [threw |-> FALSE, value |-> <<"lit", "Unknown Element">>]

\* ------------------------------------------------------ the sticky banner
\* The host script of the page, in its four revisions: dynamicTopBanner.js
\* (2.0), part_003 (2.3), part_002 (3.1) and the copy inside utils.js, which
\* also requires the filter element.
BannerRevs == {"2.0", "2.3", "3.1", "utils"}

HostElements == {"top-banner", "nav-wrap", "page_wrapper", "sticky-filter-wrapper"}

\* dynamicTopBanner.js:30-35, part_002:16-21, part_003:28-33, utils.js:50-57
Required(rev) ==
    IF rev = "utils" THEN HostElements ELSE {"top-banner", "nav-wrap", "page_wrapper"}

\* present: the host elements of the document; dbug: the URL has ?dbug=true
\* (siteUtils.isDebugMode, utils.js:19-22); started: the Webflow.push callback
\* has run; warnings: the console.warn calls since the page view began;
\* loops: requestAnimationFrame(checkScroll) chains running; listeners:
\* resize listeners; timers: pending setTimeout(updatePositions);
\* debounced: resize listeners whose debounce timeout is pending; created:
\* gsap.set / gsap.to calls made; views: wfPageView events handled.
NoNav == [rev |-> "2.0", present |-> {}, dbug |-> FALSE, started |-> FALSE,
          isInitialized |-> FALSE, warnings |-> 0, loops |-> 0, listeners |-> 0,
          timers |-> 0, debounced |-> 0, created |-> 0, views |-> 0]

NavInits == {[NoNav EXCEPT !.rev = r, !.present = P, !.dbug = d] :
             r \in BannerRevs, P \in SUBSET HostElements, d \in BOOLEAN}

\* part_002:22-26: v3.1 warns in debug mode only; the other revisions
\* always (dynamicTopBanner.js:36, part_003:34, utils.js:58).
warns(n) == n.rev # "3.1" \/ n.dbug

\* dynamicTopBanner.js:20-205, part_002:10-160, part_003:20-214,
\* utils.js:47-177.  v2.3 calls gsap.set twice before the loop starts
\* (part_003:110-111), the others once.
initNavScroll(n) ==
    IF n.isInitialized THEN n
    ELSE IF ~(Required(n.rev) \subseteq n.present)
         THEN [n EXCEPT !.warnings = @ + (IF warns(n) THEN 1 ELSE 0)]
    ELSE [n EXCEPT !.isInitialized = TRUE,
                   !.created = @ + (IF n.rev = "2.3" THEN 2 ELSE 1),
                   !.loops = @ + 1,
                   !.timers = @ + 1,
                   !.listeners = @ + 1]

\* -------------------------------------------------------- the render hook
\* frames: the frames of the patch on the call stack; orig: how often the
\* call has run the runtime's own render; outcome: "idle" (no call),
\* "running", "returned" or "RangeError" (the stack was exhausted).
NoRender == [frames |-> 0, orig |-> 0, outcome |-> "idle"]

\* ------------------------------------------------------ runtime detection
\* gsap: typeof window.gsap === 'object'; loaded: the script's body has
\* run; timer: the pending timer that leads to the detection code, "none",
\* "start" (setTimeout(initializeDebugger, 500)), "retry"
\* (setTimeout(initializeDebugger, 200)) or "interval" (checkGsapInterval),
\* and delay its period; polls: checks that found no GSAP; ui:
\* createDebuggerUI calls; wraps: times gsap.to / from / fromTo / set /
\* timeline were replaced; setups: times the tracking setup ran to its end;
\* threw: the script's body ended in an error.
NoDetect == [gsap |-> FALSE, loaded |-> FALSE, timer |-> "none", delay |-> 0, polls |-> 0,
             ui |-> 0, wraps |-> 0, setups |-> 0, threw |-> FALSE]

DetectVersions == {"1.0.8", "1.0.16", "1.0.23", "1.0.24"}

\* ------------------------------------------------------------ debounce
\* One function made by debounce(func, wait) (utils.js:6-16) and the timer
\* queue it uses. t: the clock in ms; timeout: the closure variable, the id
\* of the timer set last (0 before the first call; -1 where no debounced
\* function is looked at); pending: the timers set and neither fired nor
\* cleared, each [id, due, args]; nextTimer: the id setTimeout returns
\* next. History fields: lastAt and lastArgs, the time and the arguments of
\* the latest call; burstCalls and burstRuns, the calls made and the runs of
\* func since the last run before the latest call; ran, whether the last
\* step ran func, and runArgs, the arguments it ran with.
wait == 250
DebounceArgs == {"e1", "e2"}

NoDeb == [t |-> 0, timeout |-> -1, pending |-> {}, nextTimer |-> 1,
          lastAt |-> 0, lastArgs |-> "none", burstCalls |-> 0, burstRuns |-> 0,
          ran |-> FALSE, runArgs |-> "none"]

\* clearTimeout(id): an id that names no pending timer is ignored.
clearNothing(pending, id) == pending
clearTimeout(pending, id) == {p \in pending : p.id # id}

\* utils.js:8-15: executedFunction(...args)
executedFunction(d, args) ==
    [d EXCEPT !.pending = clearTimeout(@, d.timeout)
                          \cup {[id |-> d.nextTimer, due |-> d.t + wait, args |-> args]},
              !.timeout = d.nextTimer,
              !.nextTimer = @ + 1,
              !.lastAt = d.t, !.lastArgs = args,
              !.burstCalls = IF d.burstRuns > 0 THEN 1 ELSE @ + 1,
              !.burstRuns = 0,
              !.ran = FALSE]

\* utils.js:9-12: later(), run by the timer p
later(d, p) ==
    [d EXCEPT !.pending = clearTimeout(@ \ {p}, d.timeout),
              !.burstRuns = @ + 1,
              !.ran = TRUE, !.runArgs = p.args]

\* -------------------------------------------------- the scroll-check loop
\* The closure of one successful initNavScroll (dynamicTopBanner.js:75-91):
\* y is window.pageYOffset; raf the frames requested with
\* requestAnimationFrame(checkScroll); inflight the tweens the loop has
\* started and the runtime has not completed, oldest first, each the target
\* ("nav" for #nav-wrap, "filter" for #sticky-filter-wrapper) and what it is
\* ("hide", "show", "forced" for the show near the top); filter whether the
\* optional filter element exists; started and frame are history fields, the
\* nav tweens the last step started and whether the last step was a frame.
threshold == 200
Positions == {0, 60, 79, 82, 100, 206, 300, 600}

NoScroll == [y |-> 0, bannerHidden |-> FALSE, isAnimating |-> FALSE, scrollDelta |-> 0,
             lastScroll |-> 0, lastDirection |-> "null", raf |-> 0, inflight |-> <<>>,
             filter |-> FALSE, started |-> {}, frame |-> FALSE]

\* dynamicTopBanner.js:75-91 and :194: the state initNavScroll leaves.
ScrollInits == {[NoScroll EXCEPT !.y = p, !.lastScroll = p, !.raf = 1, !.filter = f] :
                p \in Positions, f \in BOOLEAN}

Abs(n) == IF n < 0 THEN 0 - n ELSE n

\* dynamicTopBanner.js:126
nearTopNever(cur) == FALSE
nearTop(cur) == cur < 80

\* gsap.to(filterWrapper, ...) when the element exists, then gsap.to(navwrap, ...)
Tweens(s, what) ==
    (IF s.filter THEN <<[target |-> "filter", what |-> what]>> ELSE <<>>)
    \o <<[target |-> "nav", what |-> what]>>

\* The same for the show near the top, where the nav tween comes first
\* (dynamicTopBanner.js:131-135).
ForcedTweens(s) ==
    <<[target |-> "nav", what |-> "forced"]>>
    \o (IF s.filter THEN <<[target |-> "filter", what |-> "forced"]>> ELSE <<>>)

\* dynamicTopBanner.js:94-191, part_002:71-150, part_003:112-204,
\* utils.js:98-168: one frame of the loop, the frame taken off raf before.
checkScrollFrame(s) ==
    LET currentScroll == s.y
        direction == IF currentScroll > s.lastScroll THEN "down" ELSE "up"
        diff == Abs(currentScroll - s.lastScroll)
    IN IF diff < 5 THEN [s EXCEPT !.raf = @ + 1]
       ELSE LET delta == (IF direction # s.lastDirection THEN 0 ELSE s.scrollDelta) + diff
                s1 == [s EXCEPT !.lastDirection = direction, !.scrollDelta = delta,
                                !.lastScroll = currentScroll]
            IN IF nearTop(currentScroll)
               THEN IF s1.bannerHidden
                    THEN [s1 EXCEPT !.scrollDelta = 0, !.bannerHidden = FALSE,
                                    !.inflight = @ \o ForcedTweens(s1),
                                    !.started = {"forced"}, !.raf = @ + 1]
                    ELSE [s1 EXCEPT !.scrollDelta = 0, !.raf = @ + 1]
               ELSE IF ~s1.isAnimating /\ direction = "down" /\ ~s1.bannerHidden
                       /\ delta > threshold
               THEN [s1 EXCEPT !.isAnimating = TRUE, !.inflight = @ \o Tweens(s1, "hide"),
                               !.started = {"hide"}]
               ELSE IF ~s1.isAnimating /\ direction = "up" /\ s1.bannerHidden
                       /\ delta > threshold
               THEN [s1 EXCEPT !.isAnimating = TRUE, !.inflight = @ \o Tweens(s1, "show"),
                               !.started = {"show"}]
               ELSE [s1 EXCEPT !.raf = @ + 1]

\* dynamicTopBanner.js:159-164 and :180-185: onComplete of a hide or show
\* tween of the nav wrapper; the other tweens have no callback.
onComplete(s, t) ==
    IF t.target = "nav" /\ t.what \in {"hide", "show"}
    THEN [s EXCEPT !.bannerHidden = (t.what = "hide"), !.isAnimating = FALSE,
                   !.scrollDelta = 0, !.raf = @ + 1]
    ELSE s

RemoveAt(q, k) == [j \in 1..(Len(q) - 1) |-> IF j < k THEN q[j] ELSE q[j + 1]]

\* ------------------------------------------------------- runtime objects
TweenEvts == {"onStart", "onUpdate", "onRepeat", "onComplete", "onReverseComplete"}
STEvts    == {"onEnter", "onLeave", "onEnterBack", "onLeaveBack", "onUpdate"}
DoneEvts  == {"onComplete", "onReverseComplete"}
Evts      == TweenEvts \cup STEvts

\* The signals the runtime fires in the model.  Every revision treats onStart
\* and onRepeat as it treats onUpdate (the Proxy revisions) or leaves their
\* slots alone (v1.x), and onLeave / onEnterBack / onLeaveBack as onEnter.
FiredEvts(kind) ==
    IF kind = "scrollTrigger" THEN {"onEnter", "onUpdate"}
    ELSE {"onUpdate", "onComplete", "onReverseComplete"}

\* The argument lists the host passes to the creation surface, by what the
\* runtime makes of them: via is the method called (from / fromTo build the
\* same object as to), dur = vars.duration, rep = vars.repeat, targets =
\* inst.targets(), host = the callbacks the host put in vars.
Shapes == {
    \* the sticky banner's hide / show tween, dynamicTopBanner.js:155-165
    [via |-> "to",  kind |-> "tween", dur |-> 300, rep |-> 0, targets |-> <<NavWrapEl>>,
     host |-> {"onComplete"}],
    \* gsap.set(navwrap, {y: 0}), dynamicTopBanner.js:91
    [via |-> "set", kind |-> "tween", dur |-> 0,   rep |-> 0, targets |-> <<NavWrapEl>>,
     host |-> {}],
    [via |-> "to",  kind |-> "tween", dur |-> 300, rep |-> 0 - 1, targets |-> <<NavWrapEl>>,
     host |-> {}],
    [via |-> "to",  kind |-> "tween", dur |-> 300, rep |-> 0, targets |-> <<PlainEl>>,
     host |-> {}],
    [via |-> "to",  kind |-> "tween", dur |-> 300, rep |-> 0, targets |-> <<>>,
     host |-> {}],
    [via |-> "timeline", kind |-> "timeline", dur |-> 300, rep |-> 0, targets |-> <<NavWrapEl>>,
     host |-> {"onComplete"}]
}

STShapes == {
    [via |-> "create", kind |-> "scrollTrigger", dur |-> 0, rep |-> 0, targets |-> <<NavWrapEl>>,
     host |-> {"onEnter"}],
    [via |-> "create", kind |-> "scrollTrigger", dur |-> 0, rep |-> 0, targets |-> <<>>,
     host |-> {}]
}

NoObj == [via |-> "none", kind |-> "none", dur |-> 0, rep |-> 0, targets |-> <<>>,
          host |-> {}, prog |-> "start", dead |-> FALSE]

NewObj(s) == [via |-> s.via, kind |-> s.kind, dur |-> s.dur, rep |-> s.rep,
              targets |-> s.targets, host |-> s.host, prog |-> "start", dead |-> FALSE]

\* ------------------------------------------------------ tracker entries
\* progress stands for the live values of an entry (info.progress in the Proxy
\* revisions, props.current / currentTime in v1.x); sampledAt is a history
\* field, the Date.now() of the last write of those values, which the
\* behaviours of SpecSampling record.
Absent == [status |-> "absent", completedAt |-> Null, id |-> 0, type |-> "none",
           target |-> <<"lit", "N/A">>, vars |-> <<0, 0>>, progress |-> "unset",
           lastUpdated |-> 0, sampledAt |-> Null]

NoSlot == [host |-> {}, dbg |-> {}, layers |-> <<>>]

VARIABLES
    history,    \* what the behaviour records besides the program's state: "off",
                \* "sampling" (sampledAt, in SpecSampling) or "visit" (in SpecNav)
    render,     \* the call of Animation.prototype.render in progress (SpecRender)
    detect,     \* the detection of window.gsap by the v1.x scripts (SpecDetect)
    scroll,     \* the scroll-check loop of the banner script (SpecScroll)
    deb,        \* a debounced function and its timeouts (SpecDebounce)
    nav,        \* the sticky-banner script of the page (SpecBanner)
    storage,    \* how localStorage behaves on this page: "ok"; "denied" (every
                \* access throws: storage blocked); "readonly" (getItem works,
                \* setItem throws: quota exceeded)
    dom,        \* the "DOM Observe" feature: state.dom, whether domObserver is
                \* set, and the mutation records the browser holds for it
    visit,      \* the page loads of this visit: how many so far, the debug
                \* parameter of this one, the resolved value of the last one given
    ver,        \* the revision loaded on this page
    phase,      \* "pre": script not run yet, "run": active, "off": inactive
    urlParam,   \* ?debug= of the page being loaded: "absent", "true" or "other";
                \* "read" once the script has read it
    lsEnabled,  \* localStorage gsapDebuggerEnabled: "absent", "true", "false"
    state,      \* v4.3.2 / v3.10.1 feature flags
    ls,         \* localStorage gsapDebugger_<key>
    menu,       \* v1.x section checkboxes
    objs,       \* the runtime's objects, by handle
    cb,         \* the runtime's callback slots of each object
    tracked,    \* the tracker: tracked (v4/v3), activeAnimations/-Timelines (v1)
    nextId,     \* ids handed out so far
    timers,     \* armed retention timers
    now,        \* Date.now()
    logQueue,   \* logQueue
    logEl,      \* the children of the log panel
    stWrapped,  \* stWrapped
    surface,    \* wrappers installed on gsap.to/from/fromTo/set/timeline, inner first
    footprint,  \* what else the script has put on the page
    obs         \* what the host / runtime observed of the last step

\* The handles of the runtime's objects on one page.
Handles == IF history = "stale" THEN MaxStale ELSE MaxInst
Insts == 1..Handles

vars == <<history, deb, scroll, detect, render, storage, nav, visit, dom, ver, phase,
         urlParam, lsEnabled, state, ls, menu, objs, cb, tracked,
          nextId, timers, now, logQueue, logEl, stWrapped, surface, footprint, obs>>

Features == {"callbacks", "hold", "stEvents"}
Sections == {"tween", "timeline"}

\* kind: "create" (a creation-surface call), "signal" (a callback slot fired),
\* "register" (a registration function ran on inst outside a creation call),
\* "scan" (attachSTEventWrappers ran), "setup" (setupGsapOverrides ran),
\* "timer" (a retention timer ran).
\* orig / ret: the handle the original method returned / the caller received
\* (0: it threw); dbgErr: a debugger function raised; attached / hostHas: the
\* debugger had attached to inst / the host had a callback for evt; hostCalls,
\* marks, logs: host callback runs, tracker updates, log lines of the signal;
\* was: the entry's status before the step; again: the attach / set-up step
\* had run before (on that object, for "register"); wrote: the handles whose
\* live values the step wrote; for "keydown", evt is e.key and mod is
\* e.ctrlKey || e.metaKey.
NoObs == [kind |-> "none", inst |-> 0, evt |-> "", orig |-> 0, ret |-> 0,
          dbgErr |-> FALSE, attached |-> FALSE, hostHas |-> FALSE, hostCalls |-> 0,
          marks |-> 0, logs |-> 0, was |-> "absent", again |-> FALSE, wrote |-> {},
          mod |-> FALSE,
          records |-> <<>>, el |-> NullEl, ident |-> <<"lit", "">>]

\* getElementIdentifier of the revision on the page: what it returns, or that
\* it threw.
getElementIdentifier(el) == getElementIdentifierProxy(ver, el)

identify(el) ==
    IF ver \in ProxyVersions THEN [threw |-> FALSE, value |-> getElementIdentifier(el)]
    ELSE getElementIdentifierV1(el)

\* The handles a step wrote are observed where sampling is (SpecSampling,
\* SpecStale).
Wrote(S) == IF history \in {"sampling", "stale"} THEN S ELSE {}

\* The "DOM Observe" feature: state.dom, its localStorage item, whether
\* domObserver is set, and the records the browser holds for it.
NoDom == [flag |-> FALSE, stored |-> FALSE, observer |-> FALSE, records |-> <<>>]

NoVisit == [loads |-> 1, param |-> "none", lastParam |-> "none"]

Free == {i \in Insts : objs[i].kind = "none"}
Live == {i \in Insts : objs[i].kind # "none"}
FirstFree == CHOOSE i \in Free : \A j \in Free : i <= j

\* The state the debugger's functions read and write, as one record they map.
\* wrote collects the handles whose live values the step has written.
Store == [tracked |-> tracked, cb |-> cb, nextId |-> nextId, timers |-> timers,
          logQueue |-> logQueue, stWrapped |-> stWrapped, wrote |-> {}]

AllOff == [k \in Features |-> FALSE]
HoldOn == [k \in Features |-> k = "hold"]
AllChecked == [k \in Sections |-> TRUE]
SectionOf(kind) == IF kind = "timeline" THEN "timeline" ELSE "tween"

\* ---------------------------------------------------------------- tracker
\* Map.has
Has(st, i) == st.tracked[i] # Absent

\* The duplicate guard of the registration functions: tracked.has(inst) at
\* part_001:1055 and part_000:1053, activeAnimations.has(tween) at
\* part_001:526 and part_000:236, targetMap.has(animationInstance) at
\* webflow-debug.js:249.
neverTracked(st, i) == FALSE
isTracked(st, i) == Has(st, i)

\* Map.set on the object already in the map (the handlers mutate props in
\* place): a timer whose closure holds that object sees the new completedAt.
SetEntry(st, i, e) ==
    [st EXCEPT !.tracked[i] = e,
               !.timers = {IF t.inst = i /\ t.cur THEN [t EXCEPT !.stamp = e.completedAt]
                           ELSE t : t \in st.timers}]

\* Map.set of a fresh object: the closures of older timers keep the old one.
NewEntry(st, i, e) ==
    [st EXCEPT !.tracked[i] = e,
               !.timers = {[t EXCEPT !.cur = t.cur /\ t.inst # i] : t \in st.timers}]

\* Map.delete
DelEntry(st, i) ==
    [st EXCEPT !.tracked[i] = Absent,
               !.timers = {[t EXCEPT !.cur = t.cur /\ t.inst # i] : t \in st.timers}]

\* The retention window: FADE_OUT_MS in the Proxy revisions,
\* COMPLETED_ANIMATION_DISPLAY_DURATION in v1.0.16 - v1.0.24.
Retention ==
    IF ver \in ProxyVersions THEN FADE_OUT_MS ELSE COMPLETED_ANIMATION_DISPLAY_DURATION

\* setTimeout(() => ..., Retention); stamp is the completedAt of the props
\* object the closure captured, cur whether that object is the one in the map.
Arm(st, i, stamp, cur) ==
    [st EXCEPT !.timers = @ \cup {[inst |-> i, due |-> now + Retention,
                                  stamp |-> stamp, cur |-> cur]}]

\* part_001:991-993
enqueueLog(st, msg) == [st EXCEPT !.logQueue = Append(@, msg)]

markDoneHoldBlind(st, i) ==
    IF Has(st, i)
    THEN Arm(SetEntry(st, i, [st.tracked[i] EXCEPT !.status = "completed"]), i, Null, FALSE)
    ELSE st

markDoneUnguarded(st, i) ==
    LET s1 == SetEntry(st, i, [st.tracked[i] EXCEPT !.status = "completed"])
    IN IF ~state.hold THEN Arm(s1, i, Null, FALSE) ELSE s1

\* part_001:1006-1012, part_000:1029-1035
markDone(st, i) ==
    IF Has(st, i)
    THEN LET s1 == SetEntry(st, i, [st.tracked[i] EXCEPT !.status = "completed"])
         IN IF ~state.hold THEN Arm(s1, i, Null, FALSE) ELSE s1
    ELSE st

\* part_001:1013-1029, part_000:1036-1051: one more layer around each slot of
\* evts; the layer keeps info (id, type) and calls what the slot held before.
wrapEvents(st, i, info) ==
    [st EXCEPT !.cb[i].layers = Append(@, [id |-> info.id, type |-> info.type])]

LayerEvts(type) == IF type = "scrollTrigger" THEN STEvts ELSE TweenEvts

RegisterNot(st, i, o, type, ident) == st

\* part_001:1057-1074: tracked.set(inst, {id, type, inst, status: "playing",
\* progress: 0, vars, target})
Register(st, i, o, type, ident) ==
    [NewEntry(st, i, [status |-> "playing", completedAt |-> Null, id |-> st.nextId + 1,
                      type |-> type, target |-> ident, vars |-> <<o.dur, o.rep>>,
                      progress |-> "start", lastUpdated |-> 0, sampledAt |-> Null])
     EXCEPT !.nextId = @ + 1]

\* part_001:1033-1053, steps 1-4 of track
SkipRule(o, type) ==
    \/ Len(o.targets) = 0
    \/ type = "tween" /\ o.dur = 0
    \/ type = "tween" /\ o.rep = 0 - 1
    \/ getElementIdentifier(o.targets[1]) \in {<<"lit", "Unknown">>, <<"lit", "N/A">>}

\* part_001:1031-1086
track432(st, i, o, type) ==
    IF SkipRule(o, type) THEN st
    ELSE IF isTracked(st, i) THEN st
    ELSE LET s1 == Register(st, i, o, type, getElementIdentifier(o.targets[1]))
         IN wrapEvents(s1, i, s1.tracked[i])

\* part_000:1052-1085: i.targets()[0] of an empty list is undefined
track3101(st, i, o, type) ==
    IF isTracked(st, i) THEN st
    ELSE LET tgt == IF Len(o.targets) > 0 THEN o.targets[1] ELSE NullEl
             s1  == Register(st, i, o, type, getElementIdentifier(tgt))
         IN wrapEvents(s1, i, s1.tracked[i])

track(st, i, o, type) ==
    IF ver = "4.3.2" THEN track432(st, i, o, type) ELSE track3101(st, i, o, type)

\* part_001:1088-1096, part_000:1086-1094, over ScrollTrigger.getAll()
RECURSIVE attachFrom(_, _, _)
attachFrom(st, os, k) ==
    IF k > Handles THEN st
    ELSE IF os[k].kind = "scrollTrigger" /\ k \notin st.stWrapped
         THEN attachFrom([track(st, k, os[k], "scrollTrigger")
                          EXCEPT !.stWrapped = @ \cup {k}], os, k + 1)
         ELSE attachFrom(st, os, k + 1)

attachSTEventWrappers(st, os) == attachFrom(st, os, 1)

\* part_001:1100-1103, over gsap.globalTimeline.getChildren(true, true, false):
\* the arguments are (nested, tweens, timelines), so the list holds the tweens
\* of the runtime and none of its timelines.
getChildren(os) == {k \in Insts : os[k].kind = "tween"}

RECURSIVE scanFrom(_, _, _)
scanFrom(st, os, k) ==
    IF k > Handles THEN st
    ELSE IF k \in getChildren(os)
         THEN scanFrom(track432(st, k, os[k], os[k].kind), os, k + 1)
         ELSE scanFrom(st, os, k + 1)

\* part_001:1110-1118
RECURSIVE expireFrom(_, _, _)
expireFrom(st, os, k) ==
    IF k > Handles THEN st
    ELSE IF Has(st, k) /\ os[k].prog = "end"
         THEN expireFrom(Arm(SetEntry(st, k, [st.tracked[k] EXCEPT !.status = "completed"]),
                             k, Null, FALSE), os, k + 1)
         ELSE expireFrom(st, os, k + 1)

\* part_001:1098-1119
initialScan(st, os) == expireFrom(attachSTEventWrappers(scanFrom(st, os, 1), os), os, 1)


\* ------------------------------------------------- v1.x monitor functions
\* What the v1.x revisions keep of an animation; they have no id and no
\* target label, and v1.0.8 has no status either.
V1Entry(o, status, lu) ==
    [status |-> status, completedAt |-> Null, id |-> 0, type |-> o.kind,
     target |-> <<"lit", "N/A">>, vars |-> <<o.dur, o.rep>>, progress |-> "unset",
     lastUpdated |-> lu, sampledAt |-> Null]

\* dead: the handle is stale, reading the object (progress(), targets(),
\* time()) throws.
\* inst.eventCallback(evt, fn) for each evt of evts: the slot now holds fn, and
\* what it held before (the host's callback) is no longer called.
setCallbacks(st, i, evts) ==
    [st EXCEPT !.cb[i].dbg = @ \cup evts, !.cb[i].host = @ \ evts]

\* gsap-debugger-webflow.js:477-520 and 522-547
monitor108(st, i, o) ==
    setCallbacks(NewEntry(st, i, V1Entry(o, "none", 0)), i,
                 {"onUpdate", "onComplete", "onReverseComplete"})

\* part_001:524-614 and 617-694
monitor116(st, i, o) ==
    setCallbacks(IF ~isTracked(st, i) THEN NewEntry(st, i, V1Entry(o, "playing", 0))
                 ELSE st,
                 i, {"onUpdate", "onComplete", "onReverseComplete"})

\* part_000:232-331 and 334-415
monitor123(st, i, o) ==
    setCallbacks(IF menu[SectionOf(o.kind)] /\ ~isTracked(st, i)
                 THEN NewEntry(st, i, V1Entry(o, "playing", 0)) ELSE st,
                 i, {"onUpdate", "onComplete", "onReverseComplete"})

\* webflow-debug.js:233-315
initAnimationData(st, i, o) ==
    setCallbacks(IF ~isTracked(st, i) /\ menu[SectionOf(o.kind)]
                 THEN NewEntry(st, i, V1Entry(o, "playing", 0)) ELSE st,
                 i, {"onComplete", "onReverseComplete"})

\* props.status = 'completed'; props.completedAt = Date.now(); setTimeout(...)
complete(st, i) ==
    Arm(SetEntry(st, i, [st.tracked[i] EXCEPT !.status = "completed", !.completedAt = now]),
        i, now, TRUE)

\* Object.assign(props.current, liveUpdates) / props.currentTime = ...: the
\* live values of e are read off the object
sample(e, o) == [e EXCEPT !.progress = o.prog,
                          !.sampledAt = IF history = "sampling" THEN now ELSE @]

\* props.current / currentTime written, status = 'playing', completedAt = null
revive(st, i, o, e) ==
    LET wr == ~(o.kind = "tween" /\ Len(o.targets) = 0)
        s1 == SetEntry(st, i, [(IF wr THEN sample(e, o) ELSE e)
                               EXCEPT !.status = "playing", !.completedAt = Null])
    IN [s1 EXCEPT !.wrote = IF wr THEN @ \cup {i} ELSE @]

\* gsap-debugger-webflow.js:494-519 (tween), 525-546 (timeline)
handler108(st, i, o, evt) ==
    IF evt \in DoneEvts THEN DelEntry(st, i)
    ELSE IF o.kind = "timeline"
         THEN [NewEntry(st, i, sample(V1Entry(o, "playing", 0), o))
               EXCEPT !.wrote = @ \cup {i}]
    ELSE IF Len(o.targets) = 0 \/ ~Has(st, i) THEN st
    ELSE [SetEntry(st, i, sample(st.tracked[i], o)) EXCEPT !.wrote = @ \cup {i}]

\* part_001:544-613 (tween), 636-693 (timeline)
handler116(st, i, o, evt) ==
    IF evt \in DoneEvts
    THEN IF ~Has(st, i) THEN st ELSE complete(st, i)
    ELSE IF ~menu[SectionOf(o.kind)] THEN DelEntry(st, i)
    ELSE LET s1 == IF ~Has(st, i) THEN NewEntry(st, i, V1Entry(o, "playing", 0)) ELSE st
         IN revive(s1, i, o, s1.tracked[i])

\* part_000:253-330 (tween), 352-414 (timeline)
handler123(st, i, o, evt) ==
    IF evt \in DoneEvts
    THEN IF menu[SectionOf(o.kind)] /\ Has(st, i) THEN complete(st, i) ELSE DelEntry(st, i)
    ELSE IF ~menu[SectionOf(o.kind)]
         THEN IF o.kind = "timeline" THEN DelEntry(st, i) ELSE st
    ELSE LET s1 == IF ~Has(st, i) THEN NewEntry(st, i, V1Entry(o, "playing", now)) ELSE st
             e  == s1.tracked[i]
         IN IF now - e.lastUpdated < UPDATE_THROTTLE_INTERVAL THEN s1
            ELSE revive(s1, i, o, [e EXCEPT !.lastUpdated = now])

\* webflow-debug.js:285-314
handler124(st, i, o, evt) ==
    IF menu[SectionOf(o.kind)] /\ Has(st, i) THEN complete(st, i) ELSE DelEntry(st, i)

handler(st, i, o, evt) ==
    CASE ver = "1.0.8"  -> handler108(st, i, o, evt)
      [] ver = "1.0.16" -> handler116(st, i, o, evt)
      [] ver = "1.0.23" -> handler123(st, i, o, evt)
      [] OTHER          -> handler124(st, i, o, evt)

\* ------------------------------------------------------ creation surface
\* One wrapper of gsap.to / from / fromTo / set / timeline, run after the
\* method it wraps has returned o:
\*   "proxy"       part_001:1188-1192, part_000:1164-1168
\*   "hooks108"    gsap-debugger-webflow.js:452-475 (set is not monitored)
\*   "hooks23"     part_000:428-452; the script stops at part_000:456
\*                 (scrollTriggerAvailable is not declared), so ui is still
\*                 null and monitorTween fails on ui.menuCoreAnimationsCheckbox
\*   "tracking24"  webflow-debug.js:690-714; monitorTween and monitorTimeline
\*                 are not defined in that file
\*   "overrides24" webflow-debug.js:333-357
wrapper(w, st, i, o) ==
    CASE w = "proxy" ->
           [st |-> track(st, i, o, IF o.via = "timeline" THEN "timeline" ELSE "tween"),
            threw |-> FALSE]
      [] w = "hooks108" ->
           [st |-> IF o.via = "set" THEN st ELSE monitor108(st, i, o), threw |-> FALSE]
      [] w = "overrides24" ->
           [st |-> initAnimationData(st, i, o), threw |-> FALSE]
      [] OTHER -> [st |-> st, threw |-> TRUE]

\* The wrappers in installation order; an exception leaves through the outer
\* ones, none of which catches it.
RECURSIVE callSurface(_, _, _, _)
callSurface(st, i, o, k) ==
    IF k > Len(surface) THEN [st |-> st, threw |-> FALSE]
    ELSE LET r == wrapper(surface[k], st, i, o)
         IN IF r.threw THEN r ELSE callSurface(r.st, i, o, k + 1)

\* ----------------------------------------------------------- DOM observer
\* A node of the document, by where it is (pos: "body", "outside" the overlay,
\* "overlay" for the container itself, "inside" it) and its nodeType (1 an
\* element, 3 a text node).
Node(pos, nodeType) == [pos |-> pos, nodeType |-> nodeType]

\* A MutationRecord: target, addedNodes, removedNodes, type, attributeName.
Record(t, added, removed, type, attr) ==
    [target |-> t, addedNodes |-> added, removedNodes |-> removed, type |-> type,
     attributeName |-> attr]

\* What the host page does to its own document: an attribute of an element,
\* a child element added, a text removed, an element added to the body.
HostRecords == {
    Record(Node("outside", 1), <<>>, <<>>, "attributes", "style"),
    Record(Node("outside", 1), <<Node("outside", 1)>>, <<>>, "childList", ""),
    Record(Node("outside", 1), <<>>, <<Node("outside", 3)>>, "childList", ""),
    Record(Node("body", 1), <<Node("outside", 1)>>, <<>>, "childList", "")
}

\* What the overlay does to its own subtree.
\* logEl.appendChild(d), part_001:1000
AppendRecord == Record(Node("inside", 1), <<Node("inside", 1)>>, <<>>, "childList", "")
\* logEl.removeChild(logEl.firstChild), part_001:1002; listEl.innerHTML = "",
\* part_001:1153, when the list had children
RemoveRecord == Record(Node("inside", 1), <<>>, <<Node("inside", 1)>>, "childList", "")
\* posEl.textContent = ..., part_001:1172
TextRecord ==
    Record(Node("inside", 1), <<Node("inside", 3)>>, <<Node("inside", 3)>>, "childList", "")
\* btn.classList.toggle("active", ...), part_001:974
ClassRecord == Record(Node("inside", 1), <<>>, <<>>, "attributes", "class")

\* The browser queues the records of a change for the observer, if one is
\* observing document.body (part_001:1139-1143).
Mutated(recs) ==
    /\ dom.observer => Len(dom.records) + Len(recs) <= MaxRecords
    /\ dom' = IF dom.observer THEN [dom EXCEPT !.records = @ \o recs] ELSE dom

\* ui.contains(n): n is the container or a descendant of it
containsNever(n) == FALSE
contains(n) == n.pos \in {"overlay", "inside"}

\* part_001:1127-1133, part_000:1103-1111: the record is dropped
skipped(m) ==
    \/ contains(m.target)
    \/ \E k \in DOMAIN m.addedNodes :
         m.addedNodes[k].nodeType = 1 /\ contains(m.addedNodes[k])
    \/ \E k \in DOMAIN m.removedNodes :
         m.removedNodes[k].nodeType = 1 /\ contains(m.removedNodes[k])

\* `[DOM] ${getElementIdentifier(t)} ${m.type}` + (attributeName ? ...)
DomMessage(m) == <<"[DOM]", m.target.pos, m.type, m.attributeName>>

\* part_001:1126-1137: the observer's callback over the records it is given
RECURSIVE observerCallback(_, _, _)
observerCallback(st, recs, k) ==
    IF k > Len(recs) THEN st
    ELSE observerCallback(IF skipped(recs[k]) THEN st
                          ELSE enqueueLog(st, DomMessage(recs[k])), recs, k + 1)

\* A click on "DOM Observe": part_001:971-977 with handleToggle 987, which
\* calls startDOMObserver (1123-1144) or stopDOMObserver (1145-1149); the
\* browser drops the records of a disconnected observer.
ToggleDom ==
    /\ phase = "run"
    /\ ver \in ProxyVersions
    /\ LET on   == ~dom.flag
           recs == IF dom.observer THEN dom.records \o <<ClassRecord>> ELSE <<>>
       IN /\ Len(recs) <= MaxRecords
          /\ dom' = IF ver = "4.3.2" /\ storage # "ok"
                    THEN [dom EXCEPT !.flag = on]   \* setItem throws at part_001:973
                    ELSE [flag |-> on, stored |-> IF ver = "4.3.2" THEN on ELSE dom.stored,
                          observer |-> on, records |-> IF on THEN recs ELSE <<>>]
    /\ obs' = NoObs
    /\ UNCHANGED <<history, deb, scroll, detect, render, storage, nav, visit, ver, footprint,
                   phase, urlParam, lsEnabled, state, ls,
                   menu, objs, cb, tracked, nextId, timers, now, logQueue, logEl,
                   stWrapped, surface>>

\* The host page changes its document.
HostMutate(m) ==
    /\ phase = "run"
    /\ dom.observer
    /\ Mutated(<<m>>)
    /\ obs' = NoObs
    /\ UNCHANGED <<history, deb, scroll, detect, render, storage, nav, visit, ver, footprint,
                   phase, urlParam, lsEnabled, state, ls,
                   menu, objs, cb, tracked, nextId, timers, now, logQueue, logEl,
                   stWrapped, surface>>

\* The browser hands the observer the records it holds.
Deliver ==
    /\ dom.observer
    /\ dom.records # <<>>
    /\ LET st == observerCallback(Store, dom.records, 1)
       IN /\ Len(st.logQueue) + Len(logEl) <= MaxDomLog
          /\ logQueue' = st.logQueue
          /\ obs' = [NoObs EXCEPT !.kind = "deliver", !.records = dom.records,
                                  !.logs = Len(st.logQueue) - Len(logQueue)]
    /\ dom' = [dom EXCEPT !.records = <<>>]
    /\ UNCHANGED <<history, deb, scroll, detect, render, storage, nav, visit, ver, footprint,
                   phase, urlParam, lsEnabled, state, ls,
                   menu, objs, cb, tracked, nextId, timers, now, logEl, stWrapped,
                   surface>>

\* --------------------------------------------------------------- actions
Apply(st) ==
    /\ tracked' = st.tracked
    /\ cb' = st.cb
    /\ nextId' = st.nextId
    /\ timers' = st.timers
    /\ logQueue' = st.logQueue
    /\ stWrapped' = st.stWrapped

\* localStorage.setItem(LS_KEY, enabled) stores String(enabled)
String(b) == IF b THEN "true" ELSE "false"

\* part_001:866-874, webflow-debug.js:41-47: the stored value, overridden by
\* the debug parameter when the URL has one
enabledStoredFirst(param, stored) ==
    IF stored # "absent" THEN stored = "true" ELSE param = "true"
enabledAlways(param, stored) == TRUE
enabled(param, stored) ==
    IF param # "absent" THEN param = "true" ELSE stored = "true"

\* What an active script puts on the page besides the creation-surface
\* wrappers: the <style> element, the overlay container, its interval timers
\* and its event listeners.  The v1.0.23 script stops at part_000:456, before
\* any of them.
Footprint == IF ver = "1.0.23" THEN {} ELSE {"style", "overlay", "timer", "listener"}

\* part_001:865-876 and the set-up that follows it in each revision
\* localStorage.getItem(LS_KEY) stands before the try block (part_001:866,
\* part_000:895) and in no try block at all in v1.x: when it throws, the
\* script ends there.
getItemThrows == storage = "denied"

\* localStorage.setItem(LS_KEY, enabled) runs when the URL has the parameter;
\* the Proxy revisions catch what it throws (part_001:867-875,
\* part_000:896-904) and go on with the value of the parameter, the v1.x
\* revisions do not catch it.
setItemThrows == storage # "ok" /\ urlParam # "absent"

Boot ==
    /\ phase = "pre"
    /\ LET threw == getItemThrows \/ (setItemThrows /\ ver \notin ProxyVersions)
           en    == ~threw /\ enabled(urlParam, lsEnabled)
       IN /\ lsEnabled' = IF urlParam # "absent" /\ storage = "ok"
                         THEN String(en) ELSE lsEnabled
          /\ obs' = IF threw THEN [NoObs EXCEPT !.kind = "boot", !.dbgErr = TRUE]
                    ELSE NoObs
          /\ footprint' = IF en THEN Footprint ELSE {}
          /\ visit' = IF history = "visit" /\ urlParam # "absent"
                      THEN [visit EXCEPT !.lastParam = IF urlParam = "true" THEN "true"
                                                       ELSE "false"]
                      ELSE visit
          /\ urlParam' = "read"
          /\ phase' = IF en THEN "run" ELSE "off"
          /\ state' = IF en /\ ver = "4.3.2" THEN ls ELSE state
          /\ dom' = IF en /\ ver = "4.3.2" THEN [dom EXCEPT !.flag = dom.stored] ELSE dom
          /\ Apply(IF en /\ ver = "4.3.2" THEN initialScan(Store, objs) ELSE Store)
          /\ surface' = IF ~en \/ ver = "1.0.16" THEN surface
                        ELSE Append(surface,
                                    CASE ver \in ProxyVersions -> "proxy"
                                      [] ver = "1.0.8"  -> "hooks108"
                                      [] ver = "1.0.23" -> "hooks23"
                                      [] OTHER          -> "tracking24")
    /\ UNCHANGED <<history, deb, scroll, detect, render, storage, nav, ver, ls, menu, objs,
                   now, logEl>>

\* The host calls gsap.to / from / fromTo / set / timeline.
GsapCreate(s, origThrows) ==
    /\ Free # {}
    /\ LET i == FirstFree
           o == NewObj(s)
           r == callSurface([Store EXCEPT !.cb[i] = [NoSlot EXCEPT !.host = s.host]], i, o, 1)
       IN IF origThrows
          THEN /\ obs' = [NoObs EXCEPT !.kind = "create"]
               /\ UNCHANGED <<objs, tracked, cb, nextId, timers, logQueue, stWrapped>>
          ELSE /\ objs' = [objs EXCEPT ![i] = o]
               /\ Apply(r.st)
               /\ obs' = [NoObs EXCEPT !.kind = "create", !.inst = i, !.orig = i,
                                       !.ret = IF r.threw THEN 0 ELSE i,
                                       !.dbgErr = r.threw]
    /\ UNCHANGED <<history, deb, scroll, detect, render, storage, nav, visit, dom, ver,
                   footprint, phase, urlParam, lsEnabled,
                   state, ls, menu, now, logEl, surface>>

\* The host calls ScrollTrigger.create, which no revision wraps.
STCreate(s) ==
    /\ ver \in ProxyVersions
    /\ Free # {}
    /\ objs' = [objs EXCEPT ![FirstFree] = NewObj(s)]
    /\ cb' = [cb EXCEPT ![FirstFree] = [NoSlot EXCEPT !.host = s.host]]
    /\ obs' = NoObs
    /\ UNCHANGED <<history, deb, scroll, detect, render, storage, nav, visit, dom, ver,
                   footprint, phase, urlParam, lsEnabled,
                   state, ls, menu, tracked, nextId, timers, now, logQueue, logEl,
                   stWrapped, surface>>

\* The layers wrapEvents put around the slot of evt, outermost first.
RECURSIVE runLayers(_, _, _, _)
runLayers(r, i, evt, k) ==
    IF k = 0 THEN r
    ELSE LET L == r.st.cb[i].layers[k]
         IN IF evt \notin LayerEvts(L.type) THEN runLayers(r, i, evt, k - 1)
            ELSE LET shouldLog == IF L.type = "scrollTrigger" THEN state.stEvents
                                  ELSE state.callbacks
                     s1 == IF shouldLog THEN enqueueLog(r.st, <<L.id, evt>>) ELSE r.st
                     dn == evt \in DoneEvts
                 IN runLayers([st    |-> IF dn THEN markDone(s1, i) ELSE s1,
                               logs  |-> r.logs + (IF shouldLog THEN 1 ELSE 0),
                               marks |-> r.marks + (IF dn /\ Has(s1, i) THEN 1 ELSE 0)],
                              i, evt, k - 1)

progressAfter(p, evt) ==
    CASE evt = "onUpdate"          -> "mid"
      [] evt = "onComplete"        -> "end"
      [] evt = "onReverseComplete" -> "start"
      [] OTHER                     -> p

\* The runtime fires the slot of evt on object i.
Signal(i, evt) ==
    /\ i \in Live
    /\ evt \in FiredEvts(objs[i].kind)
    /\ evt \in DoneEvts /\ tracked[i] # Absent => now + Retention <= MaxTime
    /\ LET o  == [objs[i] EXCEPT !.prog = progressAfter(@, evt)]
           hc == IF evt \in cb[i].host THEN 1 ELSE 0
           r  == IF cb[i].layers # <<>>
                 THEN runLayers([st |-> Store, logs |-> 0, marks |-> 0], i, evt,
                                Len(cb[i].layers))
                 ELSE IF evt \in cb[i].dbg
                 THEN [st |-> handler(Store, i, o, evt), logs |-> 0, marks |-> 1]
                 ELSE [st |-> Store, logs |-> 0, marks |-> 0]
       IN /\ Len(r.st.logQueue) + Len(logEl) <= MaxLog
          /\ objs' = [objs EXCEPT ![i] = o]
          /\ Apply(r.st)
          /\ obs' = [NoObs EXCEPT !.kind = "signal", !.inst = i, !.evt = evt,
                                  !.attached = (cb[i].layers # <<>> \/ cb[i].dbg # {}),
                                  !.hostHas = (evt \in objs[i].host),
                                  !.hostCalls = hc, !.marks = r.marks, !.logs = r.logs,
                                  !.was = tracked[i].status, !.wrote = Wrote(r.st.wrote)]
    /\ UNCHANGED <<history, deb, scroll, detect, render, storage, nav, visit, dom, ver,
                   footprint, phase, urlParam, lsEnabled,
                   state, ls, menu, now, logEl, surface>>

\* A retention timer runs: part_001:1010 and 1115, part_000:1033 delete the
\* entry; part_001:592-596, part_000:305-309, webflow-debug.js:291-295
\* delete it when the completedAt in the map equals the one of the props
\* object the closure holds.
TimerFire(t) ==
    /\ t \in timers
    /\ now >= t.due
    /\ LET i  == t.inst
           s0 == [Store EXCEPT !.timers = @ \ {t}]
       IN /\ Apply(IF ver \in ProxyVersions THEN DelEntry(s0, i)
                   ELSE IF Has(s0, i) /\ tracked[i].completedAt = t.stamp
                        THEN DelEntry(s0, i) ELSE s0)
          /\ obs' = [NoObs EXCEPT !.kind = "timer", !.inst = i, !.was = tracked[i].status]
    /\ UNCHANGED <<history, deb, scroll, detect, render, storage, nav, visit, dom, ver,
                   footprint, phase, urlParam, lsEnabled,
                   state, ls, menu, objs, now, logEl, surface>>

Tick ==
    /\ phase # "pre"
    /\ now + TickMs <= MaxTime
    /\ now' = now + TickMs
    /\ obs' = NoObs
    /\ UNCHANGED <<history, deb, scroll, detect, render, storage, nav, visit, dom, ver,
                   footprint, phase, urlParam, lsEnabled,
                   state, ls, menu, objs, cb, tracked, nextId, timers, logQueue, logEl,
                   stWrapped, surface>>

\* ScrollTrigger's "refresh" event: part_001:1201, part_000:1177
STRefresh ==
    /\ phase = "run"
    /\ ver \in ProxyVersions
    /\ Apply(attachSTEventWrappers(Store, objs))
    /\ obs' = [NoObs EXCEPT !.kind = "scan", !.again = (stWrapped # {})]
    /\ UNCHANGED <<history, deb, scroll, detect, render, storage, nav, visit, dom, ver,
                   footprint, phase, urlParam, lsEnabled,
                   state, ls, menu, objs, now, logEl, surface>>

\* A click on a toggle button: part_001:971-977 with handleToggle 981-988
\* (which persists the flag), part_000:983-988 with handleToggle 1002-1009.
Toggle(key) ==
    /\ phase = "run"
    /\ ver \in ProxyVersions
    /\ LET on == ~state[key]
       IN /\ state' = [state EXCEPT ![key] = on]
          /\ IF ver = "4.3.2" /\ storage # "ok"
             THEN \* localStorage.setItem throws at part_001:973
                  /\ obs' = [NoObs EXCEPT !.kind = "toggle", !.dbgErr = TRUE]
                  /\ UNCHANGED <<ls, logEl, dom, tracked, cb, nextId, timers, logQueue,
                                 stWrapped>>
             ELSE /\ ls' = IF ver = "4.3.2" THEN [ls EXCEPT ![key] = on] ELSE ls
                  /\ logEl' = IF key = "callbacks" /\ ~on THEN <<>> ELSE logEl
                  /\ Apply(IF key = "stEvents" /\ on
                           THEN attachSTEventWrappers(Store, objs) ELSE Store)
                  /\ obs' = IF key = "stEvents" /\ on
                            THEN [NoObs EXCEPT !.kind = "scan",
                                               !.again = (stWrapped # {})]
                            ELSE NoObs
                  /\ Mutated(<<ClassRecord>>
                             \o (IF logEl' # logEl THEN <<RemoveRecord>> ELSE <<>>))
    /\ UNCHANGED <<history, deb, scroll, detect, render, storage, nav, visit, ver, footprint,
                   phase, urlParam, lsEnabled, menu, objs,
                   now, surface>>

\* activeAnimations.clear() / activeTimelines.clear()
RECURSIVE clearFrom(_, _, _)
clearFrom(st, sec, k) ==
    IF k > Handles THEN st
    ELSE clearFrom(IF Has(st, k) /\ SectionOf(st.tracked[k].type) = sec
                   THEN DelEntry(st, k) ELSE st, sec, k + 1)

\* A section checkbox changes: part_001:305-314, part_000:628-636,
\* webflow-debug.js:575-583
ToggleSection(sec) ==
    /\ phase = "run"
    /\ ver \in StatusVersions
    /\ menu' = [menu EXCEPT ![sec] = ~menu[sec]]
    /\ Apply(IF menu[sec] THEN clearFrom(Store, sec, 1) ELSE Store)
    /\ obs' = NoObs
    /\ UNCHANGED <<history, deb, scroll, detect, render, storage, nav, visit, dom, ver,
                   footprint, phase, urlParam, lsEnabled,
                   state, ls, objs, now, logEl, surface>>

\* The observe step of the v1.0.16 - v1.0.24 revisions applied to object i,
\* as its call sites are written: the render hook (part_001:713-731, which
\* clears the entry when the section is unchecked), the creation hooks
\* (part_000:428-452) and setupGsapOverrides (webflow-debug.js:333-357).
\* The page scripts of these revisions do not get there with the UI built
\* (the render hook re-enters itself at part_001:701, the v1.0.23 script stops
\* at part_000:456, nothing calls setupGsapOverrides), so the functions are
\* applied directly to examine what they do to an entry.
Monitor(i) ==
    /\ phase = "run"
    /\ ver \in StatusVersions
    /\ i \in Live
    /\ objs[i].kind \in {"tween", "timeline"}
    /\ LET o   == objs[i]
           ran == ver # "1.0.16" \/ menu[SectionOf(o.kind)]
       IN /\ Apply(CASE ver = "1.0.16" -> IF ran THEN monitor116(Store, i, o)
                                          ELSE DelEntry(Store, i)
                     [] ver = "1.0.23" -> monitor123(Store, i, o)
                     [] OTHER          -> initAnimationData(Store, i, o))
          /\ obs' = IF ran
                    THEN [NoObs EXCEPT !.kind = "register", !.inst = i,
                                       !.was = tracked[i].status,
                                       !.again = (cb[i].dbg # {})]
                    ELSE NoObs
    /\ UNCHANGED <<history, deb, scroll, detect, render, storage, nav, visit, dom, ver,
                   footprint, phase, urlParam, lsEnabled,
                   state, ls, menu, objs, now, logEl, surface>>

\* webflow-debug.js:320 and 327: originalTo is set once the overrides are in
originalToUnset == FALSE
originalTo == \E k \in DOMAIN surface : surface[k] = "overrides24"

\* webflow-debug.js:323-358, called any number of times
setupGsapOverrides ==
    /\ phase = "run"
    /\ ver = "1.0.24"
    /\ surface' = IF originalTo THEN surface ELSE Append(surface, "overrides24")
    /\ obs' = [NoObs EXCEPT !.kind = "setup", !.again = originalTo]
    /\ UNCHANGED <<history, deb, scroll, detect, render, storage, nav, visit, dom, ver,
                   footprint, phase, urlParam, lsEnabled,
                   state, ls, menu, objs, cb, tracked, nextId, timers, now, logQueue,
                   logEl, stWrapped>>

\* part_001:1152-1173, part_000:1131-1152: info.progress = info.inst.progress()
\* inside try { } catch { }, so a read that throws leaves info.progress alone
renderLoop ==
    /\ phase = "run"
    /\ ver \in ProxyVersions
    /\ tracked' = [i \in Insts |-> IF tracked[i] # Absent /\ ~objs[i].dead
                                   THEN sample(tracked[i], objs[i])
                                   ELSE tracked[i]]
    /\ Mutated(<<TextRecord>>)
    /\ obs' = [NoObs EXCEPT !.kind = IF history = "stale" THEN "render" ELSE @,
                            !.wrote = Wrote({i \in Insts : tracked[i] # Absent
                                                           /\ ~objs[i].dead})]
    /\ UNCHANGED <<history, deb, scroll, detect, render, storage, nav, visit, ver, footprint,
                   phase, urlParam, lsEnabled, state, ls,
                   menu, objs, cb, nextId, timers, now, logQueue, logEl, stWrapped,
                   surface>>

\* webflow-debug.js:442-476, part_000:825-856: the live values of the tracked
\* animations that have not finished are read off the runtime every 100 ms,
\* whatever lastUpdated says; the updateDisplay() the callback of
\* webflow-debug.js ends with is not defined.  (The v1.0.23 script would
\* install its interval after part_000:456; it is applied as Monitor is.)
RECURSIVE Ascending(_)
Ascending(S) ==
    IF S = {} THEN <<>>
    ELSE LET m == CHOOSE i \in S : \A j \in S : i <= j
         IN <<m>> \o Ascending(S \ {m})

\* activeAnimations.forEach, then activeTimelines.forEach: the entries in the
\* order they were put in the maps, the tweens first
PollOrder ==
    Ascending({i \in Insts : tracked[i] # Absent /\ objs[i].kind # "timeline"
                             /\ menu["tween"]})
    \o Ascending({i \in Insts : tracked[i] # Absent /\ objs[i].kind = "timeline"
                                /\ menu["timeline"]})

\* Neither callback catches: the first read that throws ends the tick, and
\* the entries after it are not reached.
PollReached ==
    {PollOrder[k] : k \in {n \in DOMAIN PollOrder :
                              \A j \in 1..n : ~objs[PollOrder[j]].dead}}

PollSamples ==
    {i \in PollReached : /\ objs[i].prog # "end"
                         /\ objs[i].kind = "tween" => Len(objs[i].targets) > 0}

Poll ==
    /\ phase = "run"
    /\ ver \in {"1.0.23", "1.0.24"}
    /\ tracked' = [i \in Insts |-> IF i \in PollSamples THEN sample(tracked[i], objs[i])
                                   ELSE tracked[i]]
    /\ obs' = [NoObs EXCEPT !.kind = IF history = "stale" THEN "poll" ELSE @,
                            !.wrote = Wrote(PollSamples)]
    /\ UNCHANGED <<history, deb, scroll, detect, render, storage, nav, visit, dom, ver,
                   footprint, phase, urlParam, lsEnabled,
                   state, ls, menu, objs, cb, nextId, timers, now, logQueue, logEl,
                   stWrapped, surface>>

keepOldest(q, n) == IF Len(q) <= n THEN q ELSE SubSeq(q, 1, n)
Last(q, n) == IF Len(q) <= n THEN q ELSE SubSeq(q, Len(q) - n + 1, Len(q))

\* q.splice(0, n): the elements removed and what is left of q
spliceTail(q, n) ==
    LET k == IF Len(q) < n THEN Len(q) ELSE n
    IN [removed |-> SubSeq(q, Len(q) - k + 1, Len(q)), left |-> SubSeq(q, 1, Len(q) - k)]
splice(q, n) ==
    LET k == IF Len(q) < n THEN Len(q) ELSE n
    IN [removed |-> SubSeq(q, 1, k), left |-> SubSeq(q, k + 1, Len(q))]

\* part_001:993-1003, part_000:1015-1026: a tick of the flush interval; with
\* an empty queue the callback returns at once, which is a step only where
\* the ticks themselves are recorded (SpecLog, SpecDom).
Flush ==
    /\ phase = "run"
    /\ ver \in ProxyVersions
    /\ LET batch == splice(logQueue, LOG_BATCH)
           n     == Len(batch.removed)
           over  == IF Len(logEl) + n > LOG_KEEP THEN Len(logEl) + n - LOG_KEEP ELSE 0
       IN IF logQueue = <<>>
          THEN UNCHANGED <<logEl, logQueue, dom>>
          ELSE /\ logEl' = Last(logEl \o batch.removed, LOG_KEEP)
               /\ logQueue' = batch.left
               /\ Mutated([k \in 1..n |-> AppendRecord]
                          \o [k \in 1..over |-> RemoveRecord])
    /\ obs' = IF history \in {"log", "dom"}
              THEN [NoObs EXCEPT !.kind = "flush", !.logs = Len(logQueue) - Len(logQueue')]
              ELSE IF logQueue = <<>> THEN obs ELSE NoObs
    /\ UNCHANGED <<history, deb, scroll, detect, render, storage, nav, visit, ver, footprint,
                   phase, urlParam, lsEnabled, state, ls,
                   menu, objs, cb, tracked, nextId, timers, now, stWrapped, surface>>

\* The number a message gets in SpecLog: one more than the last enqueued.
NextMsg ==
    IF logQueue # <<>> THEN logQueue[Len(logQueue)] + 1
    ELSE IF logEl # <<>> THEN logEl[Len(logEl)] + 1
    ELSE 1

\* Some caller of enqueueLog (part_001:990-992, part_000:1012-1014) logs a
\* message.
Enqueue ==
    /\ phase = "run"
    /\ ver \in ProxyVersions
    /\ NextMsg <= MaxMsgs
    /\ logQueue' = enqueueLog(Store, NextMsg).logQueue
    /\ obs' = [NoObs EXCEPT !.kind = "enqueue"]
    /\ UNCHANGED <<history, deb, scroll, detect, render, storage, nav, visit, dom, ver,
                   footprint, phase, urlParam, lsEnabled, state,
                   ls, menu, objs, cb, tracked, nextId, timers, now, logEl, stWrapped,
                   surface>>

\* The runtime's object behind handle i goes stale: from now on reading it
\* throws.
Kill(i) ==
    /\ i \in Live
    /\ ~objs[i].dead
    /\ tracked[i] # Absent
    /\ objs' = [objs EXCEPT ![i].dead = TRUE]
    /\ obs' = NoObs
    /\ UNCHANGED <<history, deb, scroll, detect, render, storage, nav, visit, dom, ver,
                   footprint, phase, urlParam, lsEnabled,
                   state, ls, menu, cb, tracked, nextId, timers, now, logQueue, logEl,
                   stWrapped, surface>>

\* ------------------------------------------------------------ navigation
\* The browser loads a page of the site with debug parameter p (absent when
\* the URL has none): the page's script state is gone, localStorage stays.
Load(p) ==
    /\ visit.loads < MaxLoads
    /\ phase' = "pre"
    /\ urlParam' = p
    /\ state' = AllOff
    /\ menu' = AllChecked
    /\ objs' = [i \in Insts |-> NoObj]
    /\ cb' = [i \in Insts |-> NoSlot]
    /\ tracked' = [i \in Insts |-> Absent]
    /\ nextId' = 0
    /\ timers' = {}
    /\ logQueue' = <<>>
    /\ logEl' = <<>>
    /\ stWrapped' = {}
    /\ surface' = <<>>
    /\ footprint' = {}
    /\ dom' = [NoDom EXCEPT !.stored = dom.stored]
    /\ UNCHANGED <<history, deb, scroll, detect, render, storage, nav, ver, ls, now>>

\* The user follows a link or reloads.
Navigate(p) ==
    /\ phase # "pre"
    /\ Load(p)
    /\ visit' = [visit EXCEPT !.loads = @ + 1, !.param = p]
    /\ obs' = NoObs
    /\ UNCHANGED lsEnabled

\* The revisions whose overlay has the ON / OFF button; the v1.0.23 script
\* stops at part_000:456 and builds no overlay.
ButtonVersions == {"1.0.8", "1.0.16", "1.0.24"}

\* webflow-debug.js:543-547 with updateToggleButton 527-541 (part_001:272-276
\* with 253-270, gsap-debugger-webflow.js:233-238 with 212-230):
\* debuggerEnabled = !debuggerEnabled is persisted, and the page is replaced
\* by its URL without the debug parameter.
toggleClick(o) ==
    /\ storage = "ok"    \* when setItem throws the handler ends before the reload
    /\ lsEnabled' = String(~TRUE)
    /\ Load("absent")
    /\ visit' = [visit EXCEPT !.loads = @ + 1, !.param = "absent", !.lastParam = "false"]
    /\ obs' = o

\* A click on the ON / OFF button of an active overlay.
OffButton ==
    /\ phase = "run"
    /\ ver \in ButtonVersions
    /\ toggleClick([NoObs EXCEPT !.kind = "off"])

\* webflow-debug.js:807-815 (part_001:831-839, gsap-debugger-webflow.js:617-625):
\* a keydown with e.key = key and mod = e.ctrlKey || e.metaKey.  The D key
\* gives e.key 'd', and 'D' with Shift or Caps Lock.
Keydown(key, mod) ==
    /\ phase = "run"
    /\ ver \in ButtonVersions
    /\ LET o == [NoObs EXCEPT !.kind = "keydown", !.evt = key, !.mod = mod]
       IN IF key = "D" /\ mod
          THEN toggleClick(o)
          ELSE /\ obs' = o
               /\ UNCHANGED <<history, deb, scroll, detect, render, storage, nav, visit, dom,
                              ver, phase, urlParam, lsEnabled,
                              state, ls, menu, objs, cb, tracked, nextId, timers, now,
                              logQueue, logEl, stWrapped, surface, footprint>>

InitPage ==
    /\ ver \in Versions
    /\ phase = "pre"
    /\ urlParam \in {"absent", "true", "other"}
    /\ visit = [NoVisit EXCEPT !.param = IF history = "visit" THEN urlParam ELSE @]
    /\ lsEnabled \in {"absent", "true", "false"}
    /\ storage \in (IF history = "store" THEN {"ok", "denied", "readonly"} ELSE {"ok"})
    /\ nav \in (IF history = "banner" THEN NavInits ELSE {NoNav})
    /\ deb \in (IF history = "debounce" THEN {[NoDeb EXCEPT !.timeout = 0]} ELSE {NoDeb})
    /\ scroll \in (IF history = "scroll" THEN ScrollInits ELSE {NoScroll})
    /\ detect \in (IF history = "detect" THEN {NoDetect, [NoDetect EXCEPT !.gsap = TRUE]} ELSE {NoDetect})
    /\ render = NoRender
    /\ state = AllOff
    /\ ls \in (IF ver = "4.3.2" THEN {AllOff, HoldOn} ELSE {AllOff})
    /\ menu = AllChecked
    /\ objs = [i \in Insts |-> NoObj]
    /\ cb = [i \in Insts |-> NoSlot]
    /\ tracked = [i \in Insts |-> Absent]
    /\ nextId = 0
    /\ timers = {}
    /\ now = TickMs
    /\ logQueue = <<>>
    /\ logEl = <<>>
    /\ stWrapped = {}
    /\ surface = <<>>
    /\ footprint = {}
    /\ dom \in (IF history = "dom" /\ ver = "4.3.2"
                THEN {NoDom, [NoDom EXCEPT !.stored = TRUE]}   \* gsapDebugger_dom
                ELSE {NoDom})
    /\ obs = NoObs

Next ==
    \/ Boot
    \/ \E s \in Shapes, b \in BOOLEAN : GsapCreate(s, b)
    \/ \E s \in STShapes : STCreate(s)
    \/ \E i \in Insts, evt \in Evts : Signal(i, evt)
    \/ \E t \in timers : TimerFire(t)
    \/ Tick
    \/ STRefresh
    \/ \E key \in Features : Toggle(key)
    \/ \E sec \in Sections : ToggleSection(sec)
    \/ \E i \in Insts : Monitor(i)
    \/ setupGsapOverrides
    \/ renderLoop
    \/ Poll
    \/ Flush

Init == history = "off" /\ InitPage

Spec == Init /\ [][Next]_vars

\* The same behaviours, with the time of every write of an entry's live
\* values kept in its sampledAt.
InitSampling == history = "sampling" /\ InitPage

SpecSampling == InitSampling /\ [][Next]_vars

\* The loads of one visit to the site: the script resolves its activation on
\* each, the host creates its animations, the user navigates, clicks the
\* ON / OFF button or presses keys.
InitNav == history = "visit" /\ InitPage

NextNav ==
    \/ Boot
    \/ \E s \in Shapes, b \in BOOLEAN : GsapCreate(s, b)
    \/ \E p \in {"absent", "true", "other"} : Navigate(p)
    \/ OffButton
    \/ \E key \in {"d", "D"}, mod \in BOOLEAN : Keydown(key, mod)

SpecNav == InitNav /\ [][NextNav]_vars

\* The "DOM Observe" feature of the Proxy revisions: the user switches the
\* observer on and off, the host page and the overlay change the document,
\* the browser delivers the records.
InitDom == history = "dom" /\ InitPage

NextDom ==
    \/ Boot
    \/ ToggleDom
    \/ \E m \in HostRecords : HostMutate(m)
    \/ Deliver
    \/ Flush
    \/ renderLoop

SpecDom == InitDom /\ [][NextDom]_vars

\* The log of the Proxy revisions, no feature stored as on: messages are enqueued
\* and the flush interval moves them to the panel.
InitLog == history = "log" /\ InitPage /\ ver \in ProxyVersions /\ ls = AllOff

NextLog ==
    \/ Boot
    \/ Enqueue
    \/ Flush

SpecLog == InitLog /\ [][NextLog]_vars

\* setInterval fires the flush again and again.
SpecLogFair == SpecLog /\ WF_vars(Flush)

\* Stale handles: two objects on a first visit, the runtime moves them and
\* either may go stale; the sampling / render ticks run.
InitStale == history = "stale" /\ InitPage /\ lsEnabled = "absent" /\ ls = AllOff

NextStale ==
    \/ Boot
    \/ \E s \in Shapes : GsapCreate(s, FALSE)
    \/ \E i \in Insts : Signal(i, "onUpdate")
    \/ \E i \in Insts : Monitor(i)
    \/ setupGsapOverrides
    \/ \E i \in Insts : Kill(i)
    \/ renderLoop
    \/ Poll

SpecStale == InitStale /\ [][NextStale]_vars

\* The debugger names an element: a tween's target, a trigger, a scroller, a
\* mutated node.
Identify(el) ==
    /\ phase = "run"
    /\ obs' = [NoObs EXCEPT !.kind = "identify", !.el = el, !.ident = identify(el).value,
                            !.dbgErr = identify(el).threw]
    /\ UNCHANGED objs
    /\ UNCHANGED <<history, deb, scroll, detect, render, storage, nav, visit, dom, ver,
                   footprint, phase, urlParam, lsEnabled,
                    state, ls, menu, cb, tracked, nextId, timers, now, logQueue, logEl,
                    stWrapped, surface>>

InitIdent == history = "ident" /\ InitPage /\ lsEnabled = "absent" /\ ls = AllOff

NextIdent == Boot \/ \E el \in Elements : Identify(el)

SpecIdent == InitIdent /\ [][NextIdent]_vars

\* A step of the banner script: nothing of the debugger changes.
BannerStep(n) ==
    /\ n.created <= MaxCreated
    /\ nav' = n
    /\ obs' = NoObs
    /\ UNCHANGED objs
    /\ UNCHANGED <<history, deb, scroll, detect, render, storage, visit, dom, ver, footprint,
                   phase, urlParam, lsEnabled,
                    state, ls, menu, cb, tracked, nextId, timers, now, logQueue, logEl,
                    stWrapped, surface>>

\* dynamicTopBanner.js:207: the Webflow.push callback calls initNavScroll().
WebflowPush ==
    /\ ~nav.started
    /\ BannerStep(initNavScroll([nav EXCEPT !.started = TRUE]))

\* dynamicTopBanner.js:208-211: Webflow shows another page, whose document
\* has the host elements P.
wfPageView(P) ==
    /\ nav.started
    /\ nav.views < MaxViews
    /\ BannerStep(initNavScroll([nav EXCEPT !.isInitialized = FALSE, !.present = P,
                                            !.views = @ + 1, !.warnings = 0]))

\* dynamicTopBanner.js:94-191: a frame of a running loop in which the scroll
\* thresholds are passed and the banner is animated.
checkScroll ==
    /\ nav.loops > 0
    /\ BannerStep([nav EXCEPT !.created = @ + 1])

\* dynamicTopBanner.js:199-201: a resize (re)arms the debounce timeout of
\* every listener.
Resize ==
    /\ nav.listeners > 0
    /\ BannerStep([nav EXCEPT !.debounced = nav.listeners])

\* dynamicTopBanner.js:196 and :10-13: a timeout runs updatePositions.
updatePositions ==
    \/ nav.timers > 0 /\ BannerStep([nav EXCEPT !.timers = @ - 1])
    \/ nav.debounced > 0 /\ BannerStep([nav EXCEPT !.debounced = @ - 1])

InitBanner ==
    /\ history = "banner" /\ InitPage
    /\ ver = "4.3.2" /\ urlParam = "absent" /\ lsEnabled = "absent" /\ ls = AllOff

NextBanner ==
    \/ WebflowPush
    \/ \E P \in SUBSET HostElements : wfPageView(P)
    \/ checkScroll
    \/ Resize
    \/ updatePositions

SpecBanner == InitBanner /\ [][NextBanner]_vars

\* What gsap.core.Animation.prototype.render holds: v1.0.16 assigns its patch
\* to it at part_001:698 and keeps no reference to the function it replaced.
renderSlot == IF ver = "1.0.16" /\ phase = "run" THEN "patch" ELSE "original"

RenderStep(r) ==
    /\ render' = r
    /\ obs' = NoObs
    /\ UNCHANGED objs
    /\ UNCHANGED <<history, deb, scroll, detect, storage, nav, visit, dom, ver, footprint,
                   phase, urlParam, lsEnabled,
                    state, ls, menu, cb, tracked, nextId, timers, now, logQueue, logEl,
                    stWrapped, surface>>

\* The runtime renders an animation: it calls what the slot holds.
CallRender ==
    /\ render.outcome # "running"
    /\ phase # "off"
    /\ RenderStep(IF renderSlot = "patch"
                  THEN [frames |-> 1, orig |-> 0, outcome |-> "running"]
                  ELSE [frames |-> 0, orig |-> 1, outcome |-> "returned"])

\* part_001:701: the patch calls gsap.core.Animation.prototype.render.apply(
\* this, arguments), that is, what the slot holds now; the statements after
\* it run once that call has returned.
renderPatch ==
    /\ render.outcome = "running"
    /\ render.frames < StackLimit
    /\ RenderStep(IF renderSlot = "patch"
                  THEN [render EXCEPT !.frames = @ + 1]
                  ELSE [render EXCEPT !.orig = @ + 1, !.outcome = "returned", !.frames = 0])

\* No frame is left: the engine throws RangeError into the runtime's caller.
StackOverflow ==
    /\ render.outcome = "running"
    /\ render.frames = StackLimit
    /\ RenderStep([render EXCEPT !.outcome = "RangeError", !.frames = 0])

InitRender == history = "render" /\ InitPage /\ ver \in {"1.0.16", "1.0.8"} /\ ls = AllOff

NextRender == Boot \/ CallRender \/ renderPatch \/ StackOverflow

SpecRender == InitRender /\ [][NextRender]_vars

DetectStep(d) ==
    /\ detect' = d
    /\ obs' = NoObs
    /\ UNCHANGED objs
    /\ UNCHANGED <<history, deb, scroll, render, storage, nav, visit, dom, ver, footprint,
                   phase, urlParam, lsEnabled,
                    state, ls, menu, cb, tracked, nextId, timers, now, logQueue, logEl,
                    stWrapped, surface>>

\* The page's GSAP bundle finishes loading.
GsapLoads ==
    /\ ~detect.gsap
    /\ DetectStep([detect EXCEPT !.gsap = TRUE])

\* The body of an enabled script runs.  v1.0.8, v1.0.16 and v1.0.24 end by
\* registering setTimeout(initializeDebugger, 500) for DOMContentLoaded
\* (gsap-debugger-webflow.js:629-631, part_001:843-845,
\* webflow-debug.js:818-822).  The body of v1.0.23 replaces the creation
\* methods itself (part_000:420-451, a ReferenceError when gsap is not
\* defined) and then reads scrollTriggerAvailable, which is declared nowhere
\* (part_000:456): it never reaches its entry point at part_000:870-874.
ScriptLoad ==
    /\ phase = "run"
    /\ ~detect.loaded
    /\ DetectStep(IF ver = "1.0.23"
                  THEN [detect EXCEPT !.loaded = TRUE, !.threw = TRUE,
                                      !.wraps = @ + (IF detect.gsap THEN 1 ELSE 0)]
                  ELSE [detect EXCEPT !.loaded = TRUE, !.timer = "start", !.delay = 500])

\* gsap-debugger-webflow.js:153-166 and part_001:190-200: initializeDebugger
\* of v1.0.8 and v1.0.16 arms itself again until GSAP is there, then builds
\* the overlay and the tracking.
initializeDebuggerRetry(d) ==
    IF ~d.gsap THEN [d EXCEPT !.timer = "retry", !.delay = 200, !.polls = @ + 1]
    ELSE [d EXCEPT !.timer = "none", !.delay = 0, !.ui = @ + 1,
                   !.wraps = @ + (IF ver = "1.0.8" THEN 1 ELSE 0), !.setups = @ + 1]

\* webflow-debug.js:643-674: initializeDebugger of v1.0.24 builds the overlay
\* and starts checkGsapInterval.
initializeDebugger(d) ==
    [d EXCEPT !.ui = @ + 1, !.timer = "interval", !.delay = 200]

\* webflow-debug.js:648-673: a tick of checkGsapInterval;
\* currentGsapAvailable is false until the tick that clears the interval.
checkGsapInterval(d) ==
    IF d.gsap THEN [d EXCEPT !.timer = "none", !.delay = 0, !.wraps = @ + 1, !.setups = @ + 1]
    ELSE [d EXCEPT !.polls = @ + 1]

\* The pending timer fires.
DetectTimer ==
    /\ detect.timer # "none"
    /\ detect.gsap \/ detect.polls < MaxPolls
    /\ DetectStep(IF ver \in {"1.0.8", "1.0.16"} THEN initializeDebuggerRetry(detect)
                  ELSE IF detect.timer = "start" THEN initializeDebugger(detect)
                  ELSE checkGsapInterval(detect))

InitDetect ==
    /\ history = "detect" /\ InitPage
    /\ ver \in DetectVersions /\ ls = AllOff

NextDetect == Boot \/ GsapLoads \/ ScriptLoad \/ DetectTimer

SpecDetect == InitDetect /\ [][NextDetect]_vars

\* Timers fire and a loaded script runs.
SpecDetectFair == SpecDetect /\ WF_vars(ScriptLoad) /\ WF_vars(DetectTimer)

ScrollStep(s) ==
    /\ Len(s.inflight) <= MaxFlight
    /\ scroll' = s
    /\ obs' = NoObs
    /\ UNCHANGED objs
    /\ UNCHANGED <<history, deb, detect, render, storage, nav, visit, dom, ver, footprint,
                   phase, urlParam, lsEnabled,
                    state, ls, menu, cb, tracked, nextId, timers, now, logQueue, logEl,
                    stWrapped, surface>>

\* The user scrolls the page to position p.
Scroll(p) ==
    /\ p # scroll.y
    /\ ScrollStep([scroll EXCEPT !.y = p, !.started = {}, !.frame = FALSE])

\* The browser runs a requested frame.
Frame ==
    /\ scroll.raf > 0
    /\ ScrollStep(checkScrollFrame([scroll EXCEPT !.raf = @ - 1, !.started = {},
                                                  !.frame = TRUE]))

\* The runtime completes the tween at place k of those in flight.
TweenComplete(k) ==
    /\ k \in DOMAIN scroll.inflight
    /\ ScrollStep(onComplete([scroll EXCEPT !.inflight = RemoveAt(@, k), !.started = {},
                                            !.frame = FALSE],
                             scroll.inflight[k]))

InitScroll ==
    /\ history = "scroll" /\ InitPage
    /\ ver = "4.3.2" /\ urlParam = "absent" /\ lsEnabled = "absent" /\ ls = AllOff

NextScroll ==
    \/ \E p \in Positions : Scroll(p)
    \/ Frame
    \/ \E k \in 1..MaxFlight : TweenComplete(k)

SpecScroll == InitScroll /\ [][NextScroll]_vars

\* Frames run and tweens complete.
SpecScrollFair ==
    /\ SpecScroll
    /\ WF_vars(Frame)
    /\ WF_vars(\E k \in 1..MaxFlight : TweenComplete(k))

DebStep(d) ==
    /\ deb' = d
    /\ obs' = NoObs
    /\ UNCHANGED objs
    /\ UNCHANGED <<history, scroll, detect, render, storage, nav, visit, dom, ver, footprint,
                   phase, urlParam, lsEnabled,
                    state, ls, menu, cb, tracked, nextId, timers, now, logQueue, logEl,
                    stWrapped, surface>>

\* dynamicTopBanner.js:203-204: a resize event calls the debounced function.
DebCall(args) ==
    /\ deb.nextTimer <= MaxTimers
    /\ DebStep(executedFunction(deb, args))

\* The browser runs a timer that is due (it may run late).
DebTimer ==
    \E p \in deb.pending :
        /\ p.due <= deb.t
        /\ DebStep(later(deb, p))

\* Time passes.
DebTick ==
    /\ deb.t + ClockStep <= MaxClock
    /\ DebStep([deb EXCEPT !.t = @ + ClockStep, !.ran = FALSE])

InitDebounce ==
    /\ history = "debounce" /\ InitPage
    /\ ver = "4.3.2" /\ urlParam = "absent" /\ lsEnabled = "absent" /\ ls = AllOff

NextDebounce ==
    \/ \E args \in DebounceArgs : DebCall(args)
    \/ DebTimer
    \/ DebTick

SpecDebounce == InitDebounce /\ [][NextDebounce]_vars

\* A page whose localStorage may fail: the script boots, the host creates
\* animations, the user toggles features.
InitStore == history = "store" /\ InitPage

NextStore ==
    \/ Boot
    \/ \E s \in Shapes, b \in BOOLEAN : GsapCreate(s, b)
    \/ \E key \in Features : Toggle(key)

SpecStore == InitStore /\ [][NextStore]_vars

\* The retention timers run, and the clock advances, as long as they can.
SpecFair ==
    /\ Spec
    /\ WF_vars(Tick)
    /\ WF_vars(\E t \in timers : TimerFire(t))

\* ================================================================= claims
RetentionVersions == ProxyVersions \cup StatusVersions
Wrappers == {"proxy", "hooks108", "hooks23", "tracking24", "overrides24"}
TimerOf(i) == {t \in timers : t.inst = i}

\* C1: once the debugger has attached its observers to an animation the host
\* created with a callback of its own for an event, the runtime's signal of
\* that event still runs the host's callback exactly once.
C1_HostCallbackKept ==
    (obs.kind = "signal" /\ obs.attached /\ obs.hostHas) => obs.hostCalls = 1

\* C2: the caller of the wrapped gsap.to / from / fromTo / set / timeline
\* receives exactly the object the original method returned, and receives the
\* original method's error when it threw.
C2_PassThrough ==
    obs.kind = "create" => obs.ret = obs.orig

\* C3: an error raised inside the debugger's own registration code never
\* reaches the host: the creation call still returns its object.
C3_FailureContained ==
    obs.dbgErr => (obs.kind = "create" /\ obs.inst # 0 /\ obs.ret = obs.inst)

C5_RegisteredAtHandOver ==
    (/\ obs.kind = "create"
     /\ obs.ret # 0
     /\ phase = "run"
     /\ ver \in ProxyVersions
     /\ ~SkipRule(objs[obs.inst],
                  IF objs[obs.inst].via = "timeline" THEN "timeline" ELSE "tween"))
    => tracked[obs.inst].status = "playing"

\* The Proxy has just handed a tracked, playing object to the host.
C5_Witness ==
    /\ obs.kind = "create"
    /\ obs.ret # 0
    /\ phase = "run"
    /\ ver \in ProxyVersions
    /\ tracked[obs.ret].status = "playing"
    /\ Len(cb[obs.ret].layers) = 1

C7_CompletionScenario ==
    /\ [][/\ (/\ obs'.kind = "signal"
              /\ obs'.evt \in DoneEvts
              /\ ver \in RetentionVersions
              /\ tracked[obs'.inst] # Absent)
             => /\ tracked'[obs'.inst].status = "completed"
                /\ state.hold => timers' = timers
                /\ ~state.hold => \E t \in timers' : /\ t.inst = obs'.inst
                                                     /\ t.due = now + Retention
          /\ \A i \in Insts :
               (ver \in ProxyVersions /\ tracked[i] # Absent /\ tracked'[i] = Absent)
               => \E t \in timers \ timers' : t.inst = i /\ t.due <= now
          /\ \A i \in Insts :
               (state.hold /\ tracked[i] # Absent /\ TimerOf(i) = {})
               => /\ tracked'[i] # Absent
                  /\ state'.hold => \A t \in timers' : t.inst # i]_vars
    /\ \A i \in 1..MaxInst :
         (tracked[i].status = "completed" /\ TimerOf(i) # {}) ~> (tracked[i] = Absent)

\* A retention timer has just removed a completed entry.
C7_Witness ==
    /\ obs.kind = "timer"
    /\ obs.was = "completed"
    /\ tracked[obs.inst] = Absent
    /\ now >= TickMs + Retention

\* C8: while the hold flag is on, a retention timer that runs removes nothing.
C8_HoldSafety ==
    [][(state.hold /\ obs'.kind = "timer")
       => tracked'[obs'.inst] = tracked[obs'.inst]]_vars

\* C9: the step that turns the hold flag off expires every completed entry
\* that was being held: it is removed, or a retention timer is armed for it.
C9_ReleaseExpires ==
    [][(state.hold /\ ~state'.hold)
       => \A i \in Insts :
            (tracked[i].status = "completed" /\ TimerOf(i) = {})
            => (tracked'[i] = Absent \/ \E t \in timers' : t.inst = i)]_vars

\* C10: a tracked entry has status completed exactly when its completedAt is
\* not null.
C10_CompletedIffStamped ==
    \A i \in Insts :
        tracked[i] # Absent
        => (tracked[i].status = "completed" <=> tracked[i].completedAt # Null)

\* The entries a flag owns: a section checkbox of v1.0.16 - v1.0.24 owns the
\* entries of its map, the "ST Events" flag of the Proxy revisions the
\* ScrollTrigger entries its scan registers.
OwnedBy(flag) ==
    {i \in Insts : /\ tracked[i] # Absent
                   /\ IF flag = "stEvents" THEN tracked[i].type = "scrollTrigger"
                      ELSE SectionOf(tracked[i].type) = flag}

\* C11: the step that turns a section checkbox or a feature flag off removes
\* every tracked entry of that flag's category, whatever its status, so that
\* none is left for the next render.
C11_FlagOffClears ==
    [][/\ \A sec \in Sections :
            (ver \in StatusVersions /\ menu[sec] /\ ~menu'[sec])
            => \A i \in OwnedBy(sec) : tracked'[i] = Absent
       /\ (ver \in ProxyVersions /\ state.stEvents /\ ~state'.stEvents)
            => \A i \in OwnedBy("stEvents") : tracked'[i] = Absent]_vars

\* C12: two writes of an entry's live values are never less than
\* UPDATE_THROTTLE_INTERVAL apart, whichever of the update callbacks, the
\* polling tick and the render pass makes them; a step closer than that to
\* the last write leaves the live values as they are.
C12_SamplingThrottle ==
    [][\A i \in Insts :
         (/\ tracked[i] # Absent
          /\ tracked[i].sampledAt # Null
          /\ now - tracked[i].sampledAt < UPDATE_THROTTLE_INTERVAL)
         => /\ i \notin obs'.wrote
            /\ tracked'[i] # Absent => tracked'[i].progress = tracked[i].progress]_vars

\* C13: the live values of an entry are written only while its status is
\* playing: a step that finds the entry completed (a polling tick, a render
\* pass, an update callback) neither writes them nor leaves them changed.
C13_SnapshotFrozen ==
    [][\A i \in Insts :
         tracked[i].status = "completed"
         => /\ i \notin obs'.wrote
            /\ tracked'[i] # Absent => tracked'[i].progress = tracked[i].progress]_vars

\* C14: an object the skip rules exclude (a tween of duration 0, a tween of
\* repeat -1, an object with no targets, a first target labelled Unknown or
\* N/A) has no tracker entry and no debugger callback on its slots, whether it
\* came through the creation surface or was found by a scan.
C14_SkipRules ==
    \A i \in Live :
        SkipRule(objs[i], objs[i].kind)
        => /\ tracked[i] = Absent
           /\ cb[i].layers = <<>>
           /\ cb[i].dbg = {}

\* The rule of the usage notes: the debug parameter wins when the URL has
\* one, the persisted value decides otherwise.
Active(param, stored) ==
    \/ param = "true"
    \/ param = "absent" /\ stored = "true"

\* An inactive page: nothing wrapped, nothing installed, nothing tracked.
Inert ==
    /\ surface = <<>>
    /\ footprint = {}
    /\ timers = {}
    /\ logQueue = <<>> /\ logEl = <<>>
    /\ \A i \in Insts : tracked[i] = Absent /\ cb[i].layers = <<>> /\ cb[i].dbg = {}

\* C15: when activation resolves to false the script returns with nothing
\* wrapped, nothing added to the page and no timer or listener started; from
\* then on the creation surface returns what the runtime returns and the
\* tracker stays empty.
C15_InactiveInert ==
    /\ [][(phase = "pre" /\ phase' # "pre" /\ ~Active(urlParam, lsEnabled))
          => phase' = "off" /\ Inert']_vars
    /\ [](phase = "off" => /\ Inert
                           /\ obs.kind = "create" => obs.ret = obs.orig)

\* The host has created an animation on a page whose debugger is inactive.
C15_Witness ==
    /\ phase = "off"
    /\ obs.kind = "create"
    /\ obs.ret # 0
    /\ objs[obs.ret].kind = "tween"

\* C16: for each of the nine combinations of debug parameter (absent, 'true',
\* another value) and persisted value (absent, 'true', 'false') the script is
\* active exactly when the parameter is 'true', or is absent with 'true'
\* persisted; a parameter that is present is persisted as its resolved value,
\* and the store is left as it was when the parameter is absent.
C16_ActivationPrecedence ==
    [][(phase = "pre" /\ phase' # "pre")
       => /\ phase' = "run" <=> Active(urlParam, lsEnabled)
          /\ phase' = "off" <=> ~Active(urlParam, lsEnabled)
          /\ urlParam = "true" => lsEnabled' = "true"
          /\ urlParam \notin {"absent", "true"} => lsEnabled' = "false"
          /\ urlParam = "absent" => lsEnabled' = lsEnabled]_vars

\* A load whose parameter overrode or replaced the persisted value: the
\* script has run, is inactive and has stored 'false'.
C16_Witness ==
    /\ phase = "off"
    /\ urlParam = "read"
    /\ lsEnabled = "false"
    /\ obs = NoObs

\* C17: a page load with debug=v resolves to v, and so does every later load
\* of the visit without the parameter; the ON / OFF button of an active
\* overlay, and Ctrl / Cmd + D, persist false and reload the page without
\* the parameter, and the load that follows is inactive.
C17_StickyActivation ==
    [][/\ (phase = "pre" /\ phase' # "pre")
          => /\ visit.param # "absent" => (phase' = "run" <=> visit.param = "true")
             /\ (visit.param = "absent" /\ visit.lastParam # "none")
                => (phase' = "run" <=> visit.lastParam = "true")
       /\ (\/ obs'.kind = "off"
           \/ obs'.kind = "keydown" /\ obs'.mod /\ obs'.evt \in {"d", "D"})
          => /\ lsEnabled' = "false"
             /\ phase' = "pre"
             /\ urlParam' = "absent"
       /\ (phase = "pre" /\ obs.kind \in {"off", "keydown"} /\ phase' # "pre")
          => phase' = "off"]_vars

\* A record with its target, an added node or a removed node in the overlay.
InOverlay(m) ==
    \/ m.target.pos \in {"overlay", "inside"}
    \/ \E k \in DOMAIN m.addedNodes : m.addedNodes[k].pos \in {"overlay", "inside"}
    \/ \E k \in DOMAIN m.removedNodes : m.removedNodes[k].pos \in {"overlay", "inside"}

RECURSIVE MessagesOf(_)
MessagesOf(recs) ==
    IF recs = <<>> THEN <<>>
    ELSE (IF InOverlay(Head(recs)) THEN <<>> ELSE <<DomMessage(Head(recs))>>)
         \o MessagesOf(Tail(recs))

\* C18: while the observer runs, the records it is handed add to the log
\* queue one message for each record that lies entirely outside the overlay,
\* in order, and nothing for a record whose target, added node or removed
\* node is in the overlay: the overlay's renders and log flushes do not feed
\* the queue.
C18_SelfExclusion ==
    [][obs'.kind = "deliver" => logQueue' = logQueue \o MessagesOf(dom.records)]_vars

\* The observer was handed a record of the overlay's own log flush or
\* re-render together with one of the host page, and logged the host's only.
C18_Witness ==
    /\ obs.kind = "deliver"
    /\ \E k \in DOMAIN obs.records : InOverlay(obs.records[k])
    /\ \E k \in DOMAIN obs.records : ~InOverlay(obs.records[k])
    /\ obs.logs = 1
    /\ logQueue # <<>>
    /\ Head(Last(logQueue, 1)) = DomMessage(Record(Node("outside", 1), <<>>, <<>>,
                                                   "attributes", "style"))

\* The messages of q are numbered consecutively, oldest first.
Consecutive(q) == \A k \in 1..(Len(q) - 1) : q[k + 1] = q[k] + 1

InSeq(m, q) == \E k \in DOMAIN q : q[k] = m

\* The first message, the first one past a batch, the last one.
Watched == {1, LOG_BATCH + 1, MaxMsgs}

\* C19: a flush tick takes min(50, queue length) messages off the head of
\* the queue and puts them on the panel in the order they were enqueued; the
\* rest stays queued in order; a tick with an empty queue changes nothing; and
\* with the flush timer firing again and again every enqueued message
\* reaches the panel: a queue that holds messages is always flushed again,
\* which by the batch rule brings the message at position k to the panel
\* within k/50 ticks, rounded up, and the watched messages do arrive.
C19_BatchedFifoFlush ==
    /\ [][obs'.kind = "flush" =>
            LET n == IF Len(logQueue) < 50 THEN Len(logQueue) ELSE 50
            IN /\ Len(logQueue') = Len(logQueue) - n
               /\ logQueue # <<>> => logEl' # <<>> /\ logEl'[Len(logEl')] = logQueue[n]
               /\ logQueue' # <<>> => logQueue'[1] = logQueue[n + 1]
               /\ logQueue = <<>> => logEl' = logEl]_vars
    /\ [](Consecutive(logEl \o logQueue))
    /\ (logQueue # <<>>) ~> (obs.kind = "flush" /\ obs.logs > 0)
    /\ \A m \in Watched : InSeq(m, logQueue) ~> InSeq(m, logEl)

\* A tick has moved a full batch of 50 and left messages queued.
C19_Witness ==
    /\ obs.kind = "flush"
    /\ Len(logEl) = 50
    /\ logEl[1] = 1
    /\ Len(logQueue) > 1
    /\ logQueue[1] = 51

\* C20: the panel never holds more than 200 lines; its lines are the last
\* messages flushed, in order; a message leaves the panel only when 200
\* newer ones have been flushed after it.
C20_PanelRetention ==
    /\ Len(logEl) <= 200
    /\ Consecutive(logEl)
    /\ logQueue # <<>> /\ logEl # <<>> => logEl[Len(logEl)] + 1 = logQueue[1]
    /\ logEl # <<>> =>
         Len(logEl) = IF logEl[Len(logEl)] < 200 THEN logEl[Len(logEl)] ELSE 200

\* A tick has pushed the panel past 200 lines and the oldest were discarded.
C20_Witness ==
    /\ obs.kind = "flush"
    /\ Len(logEl) = 200
    /\ logEl[1] > 1
    /\ logEl[200] = MaxMsgs

\* C21: the log queue is bounded: whatever the enqueue calls and the flush
\* ticks, the messages waiting in the queue never number more than a fixed
\* bound; the largest limit the logging code knows is the 200 lines of the
\* panel.
C21_QueueBounded == Len(logQueue) <= LOG_KEEP

\* C22: a render pass leaves the tracker as it found it: the same entries,
\* and every field of every entry, progress and status included, equal before
\* and after.
C22_RenderPure == [][renderLoop => tracked' = tracked]_vars

\* The entries a tick reads: all of them in the Proxy revisions' render
\* pass, those of the checked sections in the UI update interval of v1.0.23
\* and v1.0.24.
TickReads ==
    IF ver \in ProxyVersions THEN {i \in Insts : tracked[i] # Absent}
    ELSE {i \in Insts : tracked[i] # Absent /\ menu[SectionOf(objs[i].kind)]}

\* The entries a tick samples when their object can be read.
TickSamples ==
    IF ver \in ProxyVersions THEN TickReads
    ELSE {i \in TickReads : /\ objs[i].prog # "end"
                            /\ objs[i].kind = "tween" => Len(objs[i].targets) > 0}

C24_CompletionIdempotent ==
    [][/\ obs'.kind = "signal"
       /\ obs'.evt \in DoneEvts
       /\ tracked[obs'.inst] = Absent
       => /\ tracked' = tracked
          /\ timers' = timers
          /\ nextId' = nextId]_vars

\* The completion wrapper of a Proxy revision ran on a handle whose entry had
\* expired.
C24_Witness ==
    /\ ver \in ProxyVersions
    /\ obs.kind = "signal"
    /\ obs.evt \in DoneEvts
    /\ obs.attached
    /\ obs.was = "absent"
    /\ tracked[obs.inst] = Absent

\* C25: once the overlay has read its feature flags at boot, the persisted
\* value of every flag equals the value in memory, whatever buttons the user
\* has toggled since: a reload restores the last toggled state.
C25_FlagsPersisted ==
    phase = "run" /\ ver \in ProxyVersions => \A key \in Features : ls[key] = state[key]

\* C26: when reading or writing the persisted store fails at boot, the
\* script does not throw into the page: it resolves to inactive and installs
\* nothing.
C26_StoreFailureInactive ==
    [][(phase = "pre" /\ phase' # "pre" /\ (getItemThrows \/ setItemThrows))
       => /\ ~obs'.dbgErr
          /\ phase' = "off"
          /\ Inert']_vars

\* C27: every eligible animation (tween or timeline) that exists in the
\* runtime when the debugger initialises has a tracker entry after
\* initialisation.
Eligible(o) == o.kind \in {"tween", "timeline"} /\ ~SkipRule(o, o.kind)

C27_ColdScan ==
    [][(ver \in ProxyVersions /\ phase = "pre" /\ phase' = "run")
       => \A i \in Insts : Eligible(objs[i]) => tracked'[i] # Absent]_vars

\* C28: the identifier resolver returns a string for every input without
\* throwing; for an element it prefers '#id', then '.firstClass' (a string
\* className only), then '<tag>', else an unknown marker.  (That it gives
\* the same result twice is what identify being a function of the element
\* says.)
C28_ResolverTotal ==
    obs.kind = "identify" =>
        LET el == obs.el
            r  == obs.ident
        IN /\ ~obs.dbgErr
           /\ (~el.null /\ el.is = "element") =>
                IF el.id # "" THEN r = <<"#", el.id>>
                ELSE IF el.classType = "string" /\ classNames(el) # <<>>
                     THEN r[1] = "." /\ r[2] = classNames(el)[1]
                ELSE IF el.tagName # "" THEN r = <<"<>", toLowerCase(el.tagName)>>
                ELSE r[1] = "lit"

\* C29: when a required host element is absent, initNavScroll aborts with a
\* single warning and leaves no effect: isInitialized stays false, no
\* scroll-check loop, resize listener or timer is added and no animation is
\* created; nothing calls it again during that page view.
Aborts(n) == ~(Required(n.rev) \subseteq n.present)

C29_MissingHostElements ==
    [][(nav' # nav /\ Aborts(nav') /\ (~nav.started \/ nav'.views # nav.views))
       => /\ ~nav'.isInitialized
          /\ nav'.warnings = 1
          /\ nav'.loops = nav.loops /\ nav'.listeners = nav.listeners
          /\ nav'.timers = nav.timers /\ nav'.debounced = nav.debounced
          /\ nav'.created = nav.created]_vars

C31_StaleTimerHarmless ==
    [][\A i \in Insts :
         (obs'.kind = "timer" /\ obs'.inst = i /\ tracked[i] # Absent /\ tracked'[i] = Absent)
         => \A u \in timers : u.inst = i => u.due <= now]_vars

\* C32: every call of the patched render of v1.0.16 runs the runtime's own
\* render exactly once, returns, and the patch does not call itself.
C32_RenderHookTerminates ==
    ver = "1.0.16" =>
        /\ render.frames <= 1
        /\ render.outcome # "RangeError"
        /\ render.outcome = "returned" => render.orig = 1

\* C33: the debugger checks for window.gsap every 200 ms until it is there;
\* the tracking setup runs exactly once and only when GSAP is present, the
\* overlay is created exactly once, polling stops after detection, and once
\* GSAP is present on a page with the debugger enabled the setup eventually
\* runs (and the overlay exists).
C33_RuntimeDetection ==
    /\ [](/\ detect.setups <= 1 /\ detect.ui <= 1 /\ detect.wraps <= 1
          /\ (detect.setups > 0 \/ detect.wraps > 0) => detect.gsap
          /\ detect.timer \in {"retry", "interval"} => detect.delay = 200
          /\ detect.setups > 0 => detect.timer = "none")
    /\ (detect.gsap /\ phase = "run") ~> (detect.setups = 1 /\ detect.ui = 1)

\* C34: the mutation observer is connected if and only if the dom flag is
\* on, in every state of the running debugger, the one right after a boot
\* that read a stored 'DOM Observe' value of true included.
C34_FlagGatesObserver ==
    (phase = "run" /\ ver \in ProxyVersions) => (dom.observer <=> dom.flag)

\* C35: while 'Trace Callbacks' is off the log panel shows no callback-trace
\* line, also when such messages were waiting in the queue at the moment of
\* the toggle; and a tween or timeline callback that fires while the flag is
\* off enqueues nothing.
CallbackLine(m) ==
    \/ m[2] \in DoneEvts
    \/ m[2] = "onUpdate" /\ \A i \in Insts : objs[i].kind # "scrollTrigger"

C35_TraceOffSynchronous ==
    (phase = "run" /\ ver \in ProxyVersions /\ ~state.callbacks) =>
        /\ \A k \in DOMAIN logEl : ~CallbackLine(logEl[k])
        /\ (obs.kind = "signal" /\ objs[obs.inst].kind # "scrollTrigger") => obs.logs = 0

\* C36: a hide animation starts only in a frame where the direction is
\* down, the banner is not hidden, no animation is running, the position is
\* at least 80 and more than 200 px have accumulated in that direction; a
\* show animation (away from the top) only under the mirrored conditions;
\* a frame whose scroll step is smaller than 5 px starts nothing.
Moved == Abs(scroll.y - scroll.lastScroll)
GoingDown == scroll.y > scroll.lastScroll
Accumulated ==
    (IF scroll.lastDirection = (IF GoingDown THEN "down" ELSE "up")
     THEN scroll.scrollDelta ELSE 0) + Moved

NavTweens == {k \in DOMAIN scroll.inflight : scroll.inflight[k].target = "nav"}
ThresholdTweens == {k \in NavTweens : scroll.inflight[k].what \in {"hide", "show"}}

C37_OneAnimation ==
    /\ [](/\ Cardinality(NavTweens) <= 1
          /\ scroll.isAnimating <=> ThresholdTweens # {})
    /\ scroll.isAnimating ~> ~scroll.isAnimating

\* A hide animation starts while the forced show is still in flight.
C37_Counterexample == Cardinality(NavTweens) <= 1

\* C38: once the loop has run with the page above 80 px and no threshold
\* animation in flight, the banner is not hidden and scrollDelta is 0.
C38_NearTopShown ==
    (scroll.frame /\ scroll.y < 80 /\ ThresholdTweens = {})
        => (~scroll.bannerHidden /\ scroll.scrollDelta = 0)

\* The loop has just run at a position below 80 and the banner is hidden.
C38_Counterexample == ~(scroll.frame /\ scroll.y < 80 /\ scroll.bannerHidden)

\* C39: across the initNavScroll calls and the wfPageView events of a page
\* at most one scroll-check loop and one resize listener are active.
C39_SingleStateMachine == nav.loops <= 1 /\ nav.listeners <= 1

\* A second loop has been started beside the first.
C39_Counterexample == nav.loops < 2

\* C40: the debounced function runs only when 250 ms have passed since the
\* latest call, with the arguments of that call and once per burst of
\* calls; a call made while a timer is pending cancels that timer, so at
\* most one timer is pending.
C40_Debounce ==
    /\ deb.ran => (deb.t >= deb.lastAt + 250 /\ deb.runArgs = deb.lastArgs)
    /\ deb.burstRuns <= 1
    /\ Cardinality(deb.pending) <= 1
    /\ (deb.burstCalls > 0 /\ deb.pending = {}) => deb.burstRuns = 1

\* The function has just run after a burst of three calls whose arguments
\* differ.
C40_Witness == deb.ran /\ deb.burstCalls = 3 /\ deb.runArgs = "e2" /\ deb.nextTimer = 4

====
